---- MODULE Spec2Model ----
(***************************************************************************)
(* A model of the lattice-transformation code of abinit-research-tools:    *)
(* Coordinate arithmetic (abinit_data_types.py), the unit-cell repeater    *)
(* (repeat_atoms_in_cell.py), the grid tilers (manipulate_cell.py and      *)
(* generate_2D_chiral_cell.py) and the chiral cell builder                 *)
(* (generate_2D_chiral_cell.py).                                           *)
(*                                                                         *)
(* A Python number is a record [k, a, b, d, r]: k is its Python type       *)
(* ("int", "frac" for fractions.Fraction, "float"), and its value is       *)
(* ((a + b*sqrt(3))/d) / sqrt(r[1]/r[2]).  r = <<1,1>> unless the number   *)
(* comes from the square root of the squared length of the chirality       *)
(* vector, so that rotation and dilation are exact arithmetic.             *)
(***************************************************************************)
EXTENDS Integers, Sequences, FiniteSets, TLC

VARIABLES atoms, op, factor, num_times, chirality, acell, result, raised,
          atoms_object, args, locals

vars == <<atoms, op, factor, num_times, chirality, acell, result, raised,
          atoms_object, args, locals>>

----------------------------------------------------------------------------
(* Bounds of the model                                                     *)

MaxAtoms == 2

MaxFactor == 2

MaxTimes == 2

MaxCellAtoms == 2

MaxChirality == 4

\* the largest |p|, |q| of a chirality given to the chiral-cell command
MaxMainChirality == 2

----------------------------------------------------------------------------
(* Python numbers                                                          *)

Abs(x) == IF x < 0 THEN -x ELSE x

RECURSIVE GCD(_, _)
GCD(x, y) == IF y = 0 THEN x ELSE GCD(y, x % y)

Rational == <<1, 1>>

\* the normal form of ((a + b*sqrt(3))/d) / sqrt(r): d > 0, lowest terms,
\* and zero is the rational 0/1
Norm(k, a, b, d, r) ==
    LET g == GCD(GCD(Abs(a), Abs(b)), Abs(d))
        s == IF d < 0 THEN -1 ELSE 1
    IN  IF a = 0 /\ b = 0 THEN [k |-> k, a |-> 0, b |-> 0, d |-> 1, r |-> Rational]
        ELSE [k |-> k, a |-> s * (a \div g), b |-> s * (b \div g), d |-> s * (d \div g),
              r |-> r]

PyInt(i) == [k |-> "int", a |-> i, b |-> 0, d |-> 1, r |-> Rational]

Fraction(n, d) == Norm("frac", n, 0, d, Rational)

PyFloat(n, d) == Norm("float", n, 0, d, Rational)

\* the type of the result of a binary operation of Python 2 on two numbers
Coerce(x, y) ==
    IF x.k = "float" \/ y.k = "float" THEN "float"
    ELSE IF x.k = "frac" \/ y.k = "frac" THEN "frac"
    ELSE "int"

IsZero(x) == x.a = 0 /\ x.b = 0

\* the sign of a + b*sqrt(3)
Sign(x) ==
    IF x.a = 0 /\ x.b = 0 THEN 0
    ELSE IF x.a >= 0 /\ x.b >= 0 THEN 1
    ELSE IF x.a <= 0 /\ x.b <= 0 THEN -1
    ELSE IF x.a > 0 THEN (IF x.a * x.a > 3 * x.b * x.b THEN 1 ELSE -1)
    ELSE (IF 3 * x.b * x.b > x.a * x.a THEN 1 ELSE -1)

NumNeg(x) == [x EXCEPT !.a = -x.a, !.b = -x.b]

\* x + y; the operands have the same radicand unless one of them is zero
NumAdd(x, y) ==
    IF IsZero(x) THEN [y EXCEPT !.k = Coerce(x, y)]
    ELSE IF IsZero(y) THEN [x EXCEPT !.k = Coerce(x, y)]
    ELSE Norm(Coerce(x, y), x.a * y.d + y.a * x.d, x.b * y.d + y.b * x.d, x.d * y.d, x.r)

NumSub(x, y) == NumAdd(x, NumNeg(y))

\* x * y; (u/sqrt(r)) * (v/sqrt(r)) = u*v/r
NumMul(x, y) ==
    LET a == x.a * y.a + 3 * x.b * y.b
        b == x.a * y.b + x.b * y.a
        d == x.d * y.d
    IN  IF x.r = Rational THEN Norm(Coerce(x, y), a, b, d, y.r)
        ELSE IF y.r = Rational THEN Norm(Coerce(x, y), a, b, d, x.r)
        ELSE Norm(Coerce(x, y), a * x.r[2], b * x.r[2], d * x.r[1], Rational)

\* 1/y; 1/(v/sqrt(r)) = (r/v)/sqrt(r), and 1/(a + b*sqrt(3)) is
\* (a - b*sqrt(3))/(a*a - 3*b*b)
NumInv(y) ==
    Norm(y.k, y.d * y.a * y.r[1], -(y.d * y.b * y.r[1]),
         (y.a * y.a - 3 * y.b * y.b) * y.r[2], y.r)

\* x / y of Python 2: floor division of two ints, true division otherwise
NumDiv(x, y) ==
    IF x.k = "int" /\ y.k = "int"
    THEN PyInt(IF y.a > 0 THEN x.a \div y.a ELSE (-x.a) \div (-y.a))
    ELSE [NumMul(x, NumInv(y)) EXCEPT !.k = Coerce(x, y)]

\* numbers of different radicands are compared by their signs and squares
Comparable(x, y) == x.r = y.r \/ IsZero(x) \/ IsZero(y)

NumLt(x, y) ==
    IF Comparable(x, y) THEN Sign(NumSub(y, x)) > 0
    ELSE IF Sign(x) # Sign(y) THEN Sign(x) < Sign(y)
    ELSE IF Sign(x) > 0 THEN Sign(NumSub(NumMul(y, y), NumMul(x, x))) > 0
    ELSE Sign(NumSub(NumMul(x, x), NumMul(y, y))) > 0

NumEq(x, y) ==
    IF Comparable(x, y) THEN Sign(NumSub(y, x)) = 0
    ELSE Sign(x) = Sign(y) /\ Sign(NumSub(NumMul(y, y), NumMul(x, x))) = 0

NumLe(x, y) == NumLt(x, y) \/ NumEq(x, y)

----------------------------------------------------------------------------
(* Coordinate and Atom (abinit_data_types.py)                              *)

\* F(x) with x evaluated once, and [F(e) for e in list]
With(x, F(_)) == CHOOSE y \in {F(v) : v \in {x}} : TRUE

ForEach(list, F(_)) == With(list, LAMBDA l : [i \in 1..Len(l) |-> F(l[i])])

\* what a call gives: a value, or the exception it raises
Ok(v) == [exc |-> "none", val |-> v]

Raise(e) == [exc |-> e, val |-> <<>>]

Coordinate(coordinate_array, coordinate_system) ==
    [coordinate_array |-> coordinate_array, coordinate_system |-> coordinate_system]

\* Atom.__init__: a coordinate that is no Coordinate becomes a "reduced" one
Atom(znucl, coord) == [znucl |-> znucl, coord |-> coord]

\* Coordinate.__eq__
Coordinate_eq(self, other) ==
    /\ self.coordinate_system = other.coordinate_system
    /\ Len(self.coordinate_array) = Len(other.coordinate_array)
    /\ \A i \in 1..Len(self.coordinate_array) :
          NumEq(self.coordinate_array[i], other.coordinate_array[i])

\* Atom.__eq__
Atom_eq(self, other) ==
    /\ self.znucl = other.znucl
    /\ Coordinate_eq(self.coord, other.coord)

\* the branch "isinstance(other, list)" of __add__, __sub__, __mul__, __div__:
\* element i of the result is self[i] <op> other[i], for every index of self
Coordinate_op_list(Op(_, _), self, other) ==
    IF Len(other) < Len(self.coordinate_array) THEN Raise("IndexError")
    ELSE Ok(Coordinate(
             [i \in 1..Len(self.coordinate_array) |->
                 Op(self.coordinate_array[i], other[i])],
             self.coordinate_system))

\* the branch "isinstance(other, Coordinate)" of the four operations
Coordinate_op_coordinate(Op(_, _), self, other) ==
    IF self.coordinate_system # other.coordinate_system
    THEN Raise("RuntimeError")
    ELSE Coordinate_op_list(Op, self, other.coordinate_array)

Coordinate_add_list(self, other) == Coordinate_op_list(NumAdd, self, other)

Coordinate_add(self, other) == Coordinate_op_coordinate(NumAdd, self, other)

Coordinate_mul_list(self, other) == Coordinate_op_list(NumMul, self, other)

Coordinate_div_list(self, other) ==
    IF \E i \in 1..Len(self.coordinate_array) : i <= Len(other) /\ IsZero(other[i])
    THEN Raise("ZeroDivisionError")
    ELSE Coordinate_op_list(NumDiv, self, other)

\* a list of Python ints
IntList(s) == [i \in 1..Len(s) |-> PyInt(s[i])]

----------------------------------------------------------------------------
(* repeat_atoms_in_unit_cell (repeat_atoms_in_cell.py)                     *)

\* Coordinate(coordinate_array=[Fraction(1,x) for x in repeat_factor_3d]):
\* no coordinate_system is given, so it is the default "unknown"
original_cell_size(repeat_factor_3d) ==
    Coordinate([i \in 1..Len(repeat_factor_3d) |-> Fraction(1, repeat_factor_3d[i])],
               "unknown")

\* scale_factor_vector: [0, 0, 0] with repitition_number at the direction
scale_factor_vector(cardinal_direction_index, repitition_number) ==
    [i \in 1..3 |-> PyInt(IF i = cardinal_direction_index THEN repitition_number ELSE 0)]

\* the innermost loop: one shifted copy of each of the first num_original_atoms
\* atoms; the first addition that raises ends the call
shifted_copies(atoms_list, num_original_atoms, shift) ==
    LET sums == [i \in 1..num_original_atoms |-> Coordinate_add(atoms_list[i].coord, shift.val)]
        bad  == {i \in 1..num_original_atoms : sums[i].exc # "none"}
    IN  IF shift.exc # "none" THEN Raise(shift.exc)
        ELSE IF bad # {} THEN Raise(sums[CHOOSE i \in bad : \A j \in bad : i <= j].exc)
        ELSE Ok([i \in 1..num_original_atoms |-> Atom(atoms_list[i].znucl, sums[i].val)])

\* for repitition_number in xrange(repitition_number, repeat_factor_3d[direction])
RECURSIVE repeat_in_direction(_, _, _, _, _)
repeat_in_direction(atoms_list, num_original_atoms, direction, repitition_number, repeat_factor_3d) ==
    IF repitition_number >= repeat_factor_3d[direction] THEN Ok(atoms_list)
    ELSE LET copies == shifted_copies(atoms_list, num_original_atoms,
                           Coordinate_mul_list(original_cell_size(repeat_factor_3d),
                               scale_factor_vector(direction, repitition_number)))
         IN  IF copies.exc # "none" THEN copies
             ELSE repeat_in_direction(atoms_list \o copies.val, num_original_atoms,
                                      direction, repitition_number + 1, repeat_factor_3d)

\* repeat_directions with the repetitions counted from 0, not from 1
RECURSIVE repeat_directions_from_zero(_, _, _)
repeat_directions_from_zero(atoms_list, direction, repeat_factor_3d) ==
    IF direction > 3 THEN Ok(atoms_list)
    ELSE LET r == repeat_in_direction(atoms_list, Len(atoms_list), direction, 0, repeat_factor_3d)
         IN  IF r.exc # "none" THEN r
             ELSE repeat_directions_from_zero(r.val, direction + 1, repeat_factor_3d)

\* for cardinal_direction_index in xrange(direction - 1, 3)
RECURSIVE repeat_directions(_, _, _)
repeat_directions(atoms_list, direction, repeat_factor_3d) ==
    IF direction > 3 THEN Ok(atoms_list)
    ELSE LET r == repeat_in_direction(atoms_list, Len(atoms_list), direction, 1, repeat_factor_3d)
         IN  IF r.exc # "none" THEN r
             ELSE repeat_directions(r.val, direction + 1, repeat_factor_3d)

\* the atoms scaled down into the sub-cell: atom.coord / repeat_factor_3d
scaled_down(atoms_list, repeat_factor_3d) ==
    ForEach(atoms_list, LAMBDA atom :
        Atom(atom.znucl, Coordinate_div_list(atom.coord, IntList(repeat_factor_3d)).val))

\* repeat_atoms_in_unit_cell without the early return for a factor of 0:
\* Fraction(1, 0) raises
repeat_atoms_in_unit_cell_no_zero_check(atoms_list, repeat_factor_3d) ==
    IF \E i \in 1..Len(repeat_factor_3d) : repeat_factor_3d[i] = 0
    THEN Raise("ZeroDivisionError")
    ELSE repeat_directions(scaled_down(atoms_list, repeat_factor_3d), 1, repeat_factor_3d)

repeat_atoms_in_unit_cell(atoms_list, repeat_factor_3d) ==
    IF \E i \in 1..Len(repeat_factor_3d) : repeat_factor_3d[i] = 0 THEN Ok(<<>>)
    ELSE repeat_directions(scaled_down(atoms_list, repeat_factor_3d), 1, repeat_factor_3d)

----------------------------------------------------------------------------
(* The grid tilers                                                         *)

\* [Atom(atom.znucl, atom.coord + [a1, a2, 0]) for atom in atoms]
translated(atoms_list, a1, a2) ==
    ForEach(atoms_list, LAMBDA atom :
        Atom(atom.znucl, Coordinate_add_list(atom.coord, IntList(<<a1, a2, 0>>)).val))

\* for a2 in xrange(a2, stop): the atoms translated by (a1, a2)
RECURSIVE tile_row(_, _, _, _)
tile_row(atoms_list, a1, a2, stop) ==
    IF a2 >= stop THEN <<>>
    ELSE translated(atoms_list, a1, a2) \o tile_row(atoms_list, a1, a2 + 1, stop)

\* tile_grid with the loops over a1 and a2 exchanged
RECURSIVE tile_row_a2_outer(_, _, _, _)
tile_row_a2_outer(atoms_list, a2, a1, stop) ==
    IF a1 >= stop THEN <<>>
    ELSE translated(atoms_list, a1, a2) \o tile_row_a2_outer(atoms_list, a2, a1 + 1, stop)

RECURSIVE tile_grid_a2_outer(_, _, _, _)
tile_grid_a2_outer(atoms_list, a2, start, stop) ==
    IF a2 >= stop THEN <<>>
    ELSE tile_row_a2_outer(atoms_list, a2, start, stop)
         \o tile_grid_a2_outer(atoms_list, a2 + 1, start, stop)

\* for a1 in xrange(a1, stop) for a2 in xrange(start, stop) for atom in atoms
RECURSIVE tile_grid(_, _, _, _)
tile_grid(atoms_list, a1, start, stop) ==
    IF a1 >= stop THEN <<>>
    ELSE tile_row(atoms_list, a1, start, stop) \o tile_grid(atoms_list, a1 + 1, start, stop)

\* manipulate_cell.repeat_atom_grid_xy: xrange(-num_times, num_times+1)
repeat_atom_grid_xy(atoms_list, n) == tile_grid(atoms_list, -n, -n, n + 1)

\* generate_2D_chiral_cell.repeat_atom_grid_xy: xrange(-num_times, num_times)
chiral_repeat_atom_grid_xy(atoms_list, n) == tile_grid(atoms_list, -n, -n, n)

----------------------------------------------------------------------------
(* Square roots, angles and matrices (math and numpy)                      *)

\* the floor of the square root of the natural number n
\* the largest k in lo..hi with k * k <= n
RECURSIVE ISqrtBetween(_, _, _)
ISqrtBetween(n, lo, hi) ==
    IF lo >= hi THEN lo
    ELSE IF ((lo + hi + 1) \div 2) * ((lo + hi + 1) \div 2) <= n
    THEN ISqrtBetween(n, (lo + hi + 1) \div 2, hi)
    ELSE ISqrtBetween(n, lo, ((lo + hi + 1) \div 2) - 1)

\* the integer part of the square root of n < 2^31
ISqrt(n) == ISqrtBetween(n, 0, IF n < 46340 THEN n ELSE 46340)

IsSquare(n) == ISqrt(n) * ISqrt(n) = n

\* math.sqrt of a rational x >= 0: a rational when x is the square of one,
\* a multiple of sqrt(3) when x is 3 times such a square, x/sqrt(x) otherwise
Sqrt(x) ==
    LET third == Norm("float", x.a, 0, 3 * x.d, Rational)
    IN  IF IsSquare(x.a) /\ IsSquare(x.d) THEN PyFloat(ISqrt(x.a), ISqrt(x.d))
        ELSE IF IsSquare(third.a) /\ IsSquare(third.d)
        THEN Norm("float", 0, ISqrt(third.a), ISqrt(third.d), Rational)
        ELSE Norm("float", x.a, 0, x.d, <<x.a, x.d>>)

\* math.sqrt of a rational x >= 0 written over the radicand rad, y/sqrt(rad),
\* where y is the square root of x * rad
SqrtOver(x, rad) ==
    LET y == Sqrt(Norm("float", x.a * rad[1], 0, x.d * rad[2], Rational))
    IN  IF rad = Rational \/ y.r # Rational THEN Sqrt(x)
        ELSE Norm("float", y.a, y.b, y.d, rad)

\* int(x) of a number x >= 0
PyIntOf(x) ==
    CHOOSE i \in 0..((Abs(x.a) + 2 * Abs(x.b)) * x.r[2]) :
        NumLe(PyInt(i), x) /\ NumLt(x, PyInt(i + 1))

\* float(x)
ToFloat(x) == [x EXCEPT !.k = "float"]

\* an angle is kept as its cosine and its sine
\* math.acos(x): the angle in [0, pi] whose cosine is x, so its sine is >= 0
acos(x) ==
    [cos |-> ToFloat(x),
     sin |-> SqrtOver(NumSub(PyInt(1), NumMul(x, x)), x.r)]

NegAngle(angle) == [cos |-> angle.cos, sin |-> NumNeg(angle.sin)]

\* sum((a*b) for a, b in zip(v1, v2))
RECURSIVE dot_from(_, _, _)
dot_from(v1, v2, i) ==
    IF i > Len(v1) \/ i > Len(v2) THEN PyInt(0)
    ELSE NumAdd(NumMul(v1[i], v2[i]), dot_from(v1, v2, i + 1))

dotproduct(v1, v2) == dot_from(v1, v2, 1)

length_of(v) == Sqrt(dotproduct(v, v))

angle_between(v1, v2) ==
    acos(NumDiv(ToFloat(dotproduct(v1, v2)), NumMul(length_of(v1), length_of(v2))))

xy_rotation_matrix(angle) ==
    << <<angle.cos, NumNeg(angle.sin), PyInt(0)>>,
       <<angle.sin, angle.cos, PyInt(0)>>,
       <<PyInt(0), PyInt(0), PyInt(1)>> >>

\* unit_cell_basis[:, j]
column(m, j) == [i \in 1..3 |-> m[i][j]]

\* the product of two 3x3 matrices
MatMul(a, b) ==
    [i \in 1..3 |-> [j \in 1..3 |-> ToFloat(dotproduct(a[i], column(b, j)))]]

Det2(a, b, c, d) == NumSub(NumMul(a, d), NumMul(b, c))

\* the cofactor of m at row i, column j; the rows and columns left are
\* taken cyclically, which takes care of the sign
Cofactor(m, i, j) ==
    LET i1 == (i % 3) + 1
        i2 == (i1 % 3) + 1
        j1 == (j % 3) + 1
        j2 == (j1 % 3) + 1
    IN  Det2(m[i1][j1], m[i1][j2], m[i2][j1], m[i2][j2])

Det(m) == dotproduct(m[1], [j \in 1..3 |-> Cofactor(m, 1, j)])

\* numpy.linalg.inv of an invertible 3x3 matrix
MatInv(m) ==
    [i \in 1..3 |-> [j \in 1..3 |-> NumDiv(ToFloat(Cofactor(m, j, i)), Det(m))]]

orthonormal_basis ==
    [i \in 1..3 |-> [j \in 1..3 |-> PyInt(IF i = j THEN 1 ELSE 0)]]

----------------------------------------------------------------------------
(* The chiral cell builder (generate_2D_chiral_cell.py)                    *)

\* numpy.linalg.inv(unit_cell_basis) * xy_rotation_matrix(angle) * unit_cell_basis
transformation_matrix(angle, unit_cell_basis) ==
    MatMul(MatMul(MatInv(unit_cell_basis), xy_rotation_matrix(angle)), unit_cell_basis)

\* Coordinate(transformation_matrix * col_matrix(coordinate_array), system)
transformed(matrix, coord) ==
    Coordinate([i \in 1..3 |-> ToFloat(dotproduct(matrix[i], coord.coordinate_array))],
               coord.coordinate_system)

rotate_atom_grid_xy(atoms_list, angle, real_unit_cell_basis) ==
    With(transformation_matrix(angle, real_unit_cell_basis), LAMBDA matrix :
        ForEach(atoms_list, LAMBDA atom :
            Atom(atom.znucl, transformed(matrix, atom.coord))))

dilate_atom_grid_xy(atoms_list, dilation) ==
    With(dilation, LAMBDA d :
        ForEach(atoms_list, LAMBDA atom :
            Atom(atom.znucl, Coordinate_mul_list(atom.coord, <<d, d, PyInt(1)>>).val)))

\* is_inside_unit_cell with the upper end included
is_inside_closed_unit_cell(coordinate) ==
    \A i \in 1..3 :
        /\ NumLe(PyInt(0), coordinate.coordinate_array[i])
        /\ NumLe(coordinate.coordinate_array[i], PyInt(1))

is_inside_unit_cell(coordinate) ==
    \A i \in 1..3 :
        /\ NumLe(PyInt(0), coordinate.coordinate_array[i])
        /\ NumLt(coordinate.coordinate_array[i], PyInt(1))

inside_atom(atom) == is_inside_unit_cell(atom.coord)

\* unit_cell_basis[:,0]*desired_chirality[0] + unit_cell_basis[:,1]*desired_chirality[1]
real_chirality_vector(unit_cell_basis, desired_chirality) ==
    [i \in 1..3 |->
        NumAdd(NumMul(unit_cell_basis[i][1], desired_chirality[1]),
               NumMul(unit_cell_basis[i][2], desired_chirality[2]))]

\* int(length_of(real_chirality_vector)) + 2
number_of_repetitions(unit_cell_basis, desired_chirality) ==
    PyIntOf(length_of(real_chirality_vector(unit_cell_basis, desired_chirality))) + 2

xy_angle_to_rotate(unit_cell_basis, desired_chirality) ==
    NegAngle(angle_between(real_chirality_vector(unit_cell_basis, desired_chirality),
                           column(unit_cell_basis, 1)))

\* 1/length_of(real_chirality_vector)
normalization_factor(unit_cell_basis, desired_chirality) ==
    NumInv(length_of(real_chirality_vector(unit_cell_basis, desired_chirality)))

\* the atoms before the final filter: tiled, rotated and dilated
normalized_atoms(unit_cell_atoms_list, desired_chirality, unit_cell_basis) ==
    dilate_atom_grid_xy(
        rotate_atom_grid_xy(
            chiral_repeat_atom_grid_xy(unit_cell_atoms_list,
                number_of_repetitions(unit_cell_basis, desired_chirality)),
            xy_angle_to_rotate(unit_cell_basis, desired_chirality),
            unit_cell_basis),
        normalization_factor(unit_cell_basis, desired_chirality))

\* the assert without its test of the third component
chirality_check_length_only(desired_chirality) ==
    IF Len(desired_chirality) >= 2 THEN "none" ELSE "IndexError"

\* the assert of line 90
chirality_check(desired_chirality) ==
    IF Len(desired_chirality) = 2 THEN "none"
    ELSE IF Len(desired_chirality) < 3 THEN "IndexError"
    ELSE IF IsZero(desired_chirality[3]) THEN "none"
    ELSE "AssertionError"

generate_xy_chiral_cell(unit_cell_atoms_list, desired_chirality, real_unit_cell_basis) ==
    IF chirality_check(desired_chirality) # "none"
    THEN Raise(chirality_check(desired_chirality))
    ELSE IF IsZero(length_of(real_chirality_vector(real_unit_cell_basis, desired_chirality)))
    THEN Raise("ZeroDivisionError")
    ELSE Ok(SelectSeq(normalized_atoms(unit_cell_atoms_list, desired_chirality,
                                       real_unit_cell_basis),
                      inside_atom))

\* the basis of the command: a1 = (1,0,0), a2 = (1/2, sqrt(3)/2, 0), as columns
rhombus_basis ==
    << <<PyInt(1), PyFloat(1, 2), PyInt(0)>>,
       <<PyInt(0), Norm("float", 0, 1, 2, Rational), PyInt(0)>>,
       <<PyInt(0), PyInt(0), PyInt(1)>> >>

\* the test of meta.make_chirality, a list, in main
main_chirality_check(desired_chirality) ==
    IF Len(desired_chirality) # 2 THEN "RuntimeError" ELSE "none"

\* (p**2 + q**2) ** 0.5
main_normalization_factor(desired_chirality) ==
    Sqrt(ToFloat(NumAdd(NumMul(desired_chirality[1], desired_chirality[1]),
                        NumMul(desired_chirality[2], desired_chirality[2]))))

\* the acell attribute with its first two lengths scaled
scaled_acell(value, desired_chirality) ==
    IF value = <<>> THEN <<>>
    ELSE With(main_normalization_factor(desired_chirality), LAMBDA f :
             <<NumMul(value[1], f), NumMul(value[2], f), value[3]>>)

\* the atoms main leaves under meta.atoms, or the error it ends with
main(meta_atoms, has_make_chirality, desired_chirality) ==
    IF ~has_make_chirality THEN Ok(meta_atoms)
    ELSE IF main_chirality_check(desired_chirality) # "none"
    THEN Raise(main_chirality_check(desired_chirality))
    ELSE generate_xy_chiral_cell(meta_atoms, desired_chirality, rhombus_basis)

----------------------------------------------------------------------------
(* Inputs                                                                  *)

\* all sequences of at most n elements of S
SeqsUpTo(S, n) == UNION {[1..m -> S] : m \in 0..n}

Znucls == {5, 14}

Systems == {"reduced", "unknown"}

\* coordinates of ints, Fractions and floats, inside the unit cell
CellCoordinates ==
    { <<PyInt(0), PyInt(0), PyInt(0)>>,
      <<Fraction(1, 2), PyFloat(1, 2), PyInt(0)>>,
      <<Fraction(1, 3), Fraction(2, 3), Fraction(1, 2)>> }

AtomPool ==
    {Atom(z, Coordinate(c, sys)) : z \in Znucls, c \in CellCoordinates, sys \in Systems}

\* the atoms parse_atoms gives for bare coordinate arrays: "reduced" ones
CellAtomPool ==
    { Atom(14, Coordinate(<<PyInt(0), PyInt(0), PyInt(0)>>, "reduced")),
      Atom(5, Coordinate(<<Fraction(1, 3), PyFloat(1, 2), Fraction(1, 2)>>, "reduced")) }

Factors == [1..3 -> 0..MaxFactor]

ChiralityRange == (-MaxChirality)..MaxChirality

\* chirality vectors of one, two and three components, of ints and of
\* floats that are no integers
Chiralities ==
    {<<PyInt(p), PyInt(q)>> : p, q \in ChiralityRange}
    \cup {<<PyInt(p), PyInt(q), PyInt(t)>> : p, q \in -1..1, t \in 0..1}
    \cup {<<PyInt(1)>>}
    \cup ({<<x, y>> : x, y \in {PyInt(1), PyFloat(1, 2), PyFloat(3, 2)}}
          \ {<<PyInt(1), PyInt(1)>>})

\* the values main reads under meta.make_chirality
MainChiralityRange == (-MaxMainChirality)..MaxMainChirality

MainChiralities ==
    {<<PyInt(p), PyInt(q)>> : p, q \in MainChiralityRange}
    \cup {<<PyInt(2), PyInt(1), PyInt(0)>>, <<PyInt(1)>>}
    \cup {<<PyFloat(3, 2), PyInt(0)>>, <<PyInt(1), PyFloat(1, 2)>>}

\* the acell attribute of the experiment, <<>> for an experiment without one
Acells == {<<>>, <<PyInt(10), PyInt(10), PyInt(20)>>}

----------------------------------------------------------------------------
(* The calls                                                               *)

Init ==
    /\ atoms \in SeqsUpTo(AtomPool, MaxAtoms)
    /\ atoms_object = atoms
    /\ args = <<>>
    /\ op = "none"
    /\ factor = <<>>
    /\ num_times = 0
    /\ chirality = <<>>
    /\ acell = <<>>
    /\ result = <<>>
    /\ raised = "none"
    /\ locals = <<>>

\* repeat_atoms_in_unit_cell(atoms, repeat_factor_3d)
RepeatAtomsInUnitCell ==
    /\ op = "none"
    /\ \E repeat_factor_3d \in Factors :
          \E r \in {repeat_atoms_in_unit_cell(atoms, repeat_factor_3d)} :
              /\ op' = "repeat_atoms_in_unit_cell"
              /\ factor' = repeat_factor_3d
              /\ result' = r.val
              /\ raised' = r.exc
    /\ UNCHANGED <<atoms, num_times, chirality, acell, atoms_object, args, locals>>

\* manipulate_cell.repeat_atom_grid_xy(atoms, n)
RepeatAtomGridXY ==
    /\ op = "none"
    /\ \E n \in 0..MaxTimes :
          /\ op' = "repeat_atom_grid_xy"
          /\ num_times' = n
          /\ result' = repeat_atom_grid_xy(atoms, n)
          /\ raised' = "none"
    /\ UNCHANGED <<atoms, factor, chirality, acell, atoms_object, args, locals>>

\* generate_2D_chiral_cell.repeat_atom_grid_xy(atoms, n)
ChiralRepeatAtomGridXY ==
    /\ op = "none"
    /\ \E n \in 0..MaxTimes :
          /\ op' = "chiral_repeat_atom_grid_xy"
          /\ num_times' = n
          /\ result' = chiral_repeat_atom_grid_xy(atoms, n)
          /\ raised' = "none"
    /\ UNCHANGED <<atoms, factor, chirality, acell, atoms_object, args, locals>>

Next == RepeatAtomsInUnitCell \/ RepeatAtomGridXY \/ ChiralRepeatAtomGridXY

Spec == Init /\ [][Next]_vars

InitChiral ==
    /\ atoms \in SeqsUpTo(CellAtomPool, MaxCellAtoms)
    /\ atoms_object = atoms
    /\ args = <<>>
    /\ op = "none"
    /\ factor = <<>>
    /\ num_times = 0
    /\ chirality = <<>>
    /\ acell = <<>>
    /\ result = <<>>
    /\ raised = "none"
    /\ locals = <<>>

\* generate_xy_chiral_cell(atoms, desired_chirality), with the default basis
GenerateXYChiralCell ==
    /\ op = "none"
    /\ \E desired_chirality \in Chiralities :
          \E r \in {generate_xy_chiral_cell(atoms, desired_chirality, orthonormal_basis)} :
              /\ op' = "generate_xy_chiral_cell"
              /\ chirality' = desired_chirality
              /\ result' = r.val
              /\ raised' = r.exc
    /\ UNCHANGED <<atoms, factor, num_times, acell, atoms_object, args, locals>>

\* the chiral-cell command: an experiment with the atoms list, the acell
\* attribute direct_acell (<<>> when the experiment has none) and, when
\* has_make_chirality, the list desired_chirality under meta.make_chirality
Main ==
    /\ op = "none"
    /\ \E has_make_chirality \in BOOLEAN, desired_chirality \in MainChiralities :
          \E r \in {main(atoms, has_make_chirality, desired_chirality)} :
              \E direct_acell \in Acells :
                  /\ op' = "main"
                  /\ chirality' = IF has_make_chirality THEN desired_chirality ELSE <<>>
                  /\ result' = r.val
                  /\ raised' = r.exc
                  /\ acell' = IF has_make_chirality /\ r.exc = "none"
                              THEN scaled_acell(direct_acell, desired_chirality)
                              ELSE direct_acell
    /\ UNCHANGED <<atoms, factor, num_times, atoms_object, args, locals>>

NextChiral ==
    GenerateXYChiralCell \/ Main \/ RepeatAtomGridXY \/ ChiralRepeatAtomGridXY

SpecChiral == InitChiral /\ [][NextChiral]_vars

----------------------------------------------------------------------------
(* Properties of repeat_atoms_in_unit_cell                                 *)

Repeated == op = "repeat_atoms_in_unit_cell"

\* the number of atoms of a list that are equal to an atom
Count(list, atom) == Cardinality({i \in 1..Len(list) : Atom_eq(list[i], atom)})

SameUpToOrder(l1, l2) ==
    /\ Len(l1) = Len(l2)
    /\ \A i \in 1..Len(l1) : Count(l1, l1[i]) = Count(l2, l1[i])

\* C1: for factors that are all >= 1, repeat_atoms_in_unit_cell returns a
\* list of exactly len(A)*nx*ny*nz atoms
C1_RepeatCount ==
    (Repeated /\ \A i \in 1..3 : factor[i] >= 1)
        => /\ raised = "none"
           /\ Len(result) = Len(atoms) * factor[1] * factor[2] * factor[3]

\* C2: with the factors (1,1,1) the result is the input list up to
\* reordering: the same atoms, each as many times, and nothing else
C2_RepeatOnceIsIdentity ==
    (Repeated /\ factor = <<1, 1, 1>>)
        => /\ raised = "none"
           /\ SameUpToOrder(result, atoms)

C2_Witness ==
    /\ Repeated
    /\ factor = <<1, 1, 1>>
    /\ raised = "none"
    /\ Len(atoms) = 2
    /\ ~Atom_eq(atoms[1], atoms[2])
    /\ atoms[1].coord.coordinate_system = "reduced"
    /\ Len(result) = 2

\* C3: when a factor is 0 the call returns the empty list, as a value and
\* without raising, whatever the other two factors are
C3_ZeroFactorGivesEmptyList ==
    (Repeated /\ \E i \in 1..3 : factor[i] = 0)
        => /\ raised = "none"
           /\ result = <<>>

C3_Witness ==
    /\ Repeated
    /\ factor = <<2, 0, 1>>
    /\ Len(atoms) = 2
    /\ raised = "none"
    /\ result = <<>>

----------------------------------------------------------------------------
(* Properties of the grid tilers                                           *)

TiledByLibrary == op = "repeat_atom_grid_xy"

TiledByChiralModule == op = "chiral_repeat_atom_grid_xy"

\* the copy of an atom under the translation (a1, a2, 0)
Copy(atom, a1, a2) ==
    Atom(atom.znucl, Coordinate_add_list(atom.coord, IntList(<<a1, a2, 0>>)).val)

\* C4: both tilers give one atom per original atom and per pair (a1,a2) with
\* -n <= a1,a2 <= n, so len(atoms)*(2n+1)^2 atoms, and the original list for
\* n = 0
C4_TilerCoversInclusiveRange ==
    (TiledByLibrary \/ TiledByChiralModule)
        => /\ Len(result) = Len(atoms) * (2 * num_times + 1) * (2 * num_times + 1)
           /\ \A a1, a2 \in (-num_times)..num_times : \A k \in 1..Len(atoms) :
                 Count(result, Copy(atoms[k], a1, a2)) >= 1
           /\ (num_times = 0 => result = atoms)

\* the triples (a1, a2, k) of a tiling over lo..hi-1, and their order
Triples(lo, hi, n) == (lo..(hi - 1)) \X (lo..(hi - 1)) \X (1..n)

LexLess(t, u) ==
    \/ t[1] < u[1]
    \/ t[1] = u[1] /\ t[2] < u[2]
    \/ t[1] = u[1] /\ t[2] = u[2] /\ t[3] < u[3]

\* out holds, for every triple, the copy of the atom, and the copy of t
\* comes before the copy of u exactly when t is lexicographically smaller
\* the place of the triple t in a list of the copies for a1, a2 in lo..hi-1
\* of n atoms
Place(t, lo, hi, n) == ((t[1] - lo) * (hi - lo) + (t[2] - lo)) * n + t[3]

\* a triple comes before another exactly when it is lexicographically smaller
PlaceIsLexOrder(lo, hi, n) ==
    \A t, u \in Triples(lo, hi, n) :
        LexLess(t, u) <=> Place(t, lo, hi, n) < Place(u, lo, hi, n)

\* out holds the copy of every triple, and nothing else, each at its place
TiledInOrder(out, in, lo, hi) ==
    /\ Len(out) = Cardinality(Triples(lo, hi, Len(in)))
    /\ \A t \in Triples(lo, hi, Len(in)) :
           out[Place(t, lo, hi, Len(in))] = Copy(in[t[3]], t[1], t[2])

\* the atoms the builder keeps are those of the tiled, rotated and dilated
\* list that lie in the unit cell, in the order of that list
KeptInOrder(out, full) ==
    LET keep == {i \in 1..Len(full) : inside_atom(full[i])}
    IN  /\ Len(out) = Cardinality(keep)
        /\ \A i \in keep : out[Cardinality({j \in keep : j <= i})] = full[i]

Built == op = "generate_xy_chiral_cell"

\* C5: the tilers list the copies in the order of the nested iteration
\* (outer a1, inner a2, innermost the original atoms), and rotation,
\* dilation and the unit-cell filter of the builder keep that order
C5_NestedIterationOrder ==
    /\ TiledByLibrary
          => /\ TiledInOrder(result, atoms, -num_times, num_times + 1)
             /\ PlaceIsLexOrder(-num_times, num_times + 1, Len(atoms))
    /\ TiledByChiralModule
          => /\ TiledInOrder(result, atoms, -num_times, num_times)
             /\ PlaceIsLexOrder(-num_times, num_times, Len(atoms))
    /\ (Built /\ raised = "none")
          => With(chiral_repeat_atom_grid_xy(atoms,
                      number_of_repetitions(orthonormal_basis, chirality)),
                  LAMBDA tiled :
                      /\ TiledInOrder(tiled, atoms,
                             -number_of_repetitions(orthonormal_basis, chirality),
                             number_of_repetitions(orthonormal_basis, chirality))
                      /\ With(dilate_atom_grid_xy(
                                  rotate_atom_grid_xy(tiled,
                                      xy_angle_to_rotate(orthonormal_basis, chirality),
                                      orthonormal_basis),
                                  normalization_factor(orthonormal_basis, chirality)),
                              LAMBDA full :
                                  /\ Len(full) = Len(tiled)
                                  /\ \A i \in 1..Len(full) :
                                         full[i].znucl = tiled[i].znucl
                                  /\ KeptInOrder(result, full)))

C5_Witness ==
    /\ Built
    /\ raised = "none"
    /\ Len(atoms) = 2
    /\ Len(result) >= 4
    /\ result[1].znucl # result[2].znucl

Commanded == op = "main"

\* the length 2 or 3 chirality vector (p, q) or (p, q, 0)
IsChirality(c, p, q) ==
    /\ Len(c) >= 2
    /\ c[1] = PyInt(p)
    /\ c[2] = PyInt(q)

IntegerChirality(c) ==
    /\ Len(c) = 2
    /\ \A i \in 1..2 : c[i].k = "int"
    /\ ~(IsZero(c[1]) /\ IsZero(c[2]))

\* p^2 + q^2
SquaredLength(c) == c[1].a * c[1].a + c[2].a * c[2].a

\* C6: with the orthonormal basis and N atoms in [0,1)^3 the builder returns
\* N atoms for the chirality (1,0), 4N for (2,0) and 2N for (1,1)
C6_SmallChiralityCounts ==
    (Built /\ raised = "none")
        => /\ IsChirality(chirality, 1, 0) => Len(result) = Len(atoms)
           /\ IsChirality(chirality, 2, 0) => Len(result) = 4 * Len(atoms)
           /\ IsChirality(chirality, 1, 1) => Len(result) = 2 * Len(atoms)

C6_Witness ==
    /\ Built
    /\ raised = "none"
    /\ IsChirality(chirality, 1, 1)
    /\ Len(atoms) = 2
    /\ Len(result) = 4

\* C7: for every integer chirality (p,q) other than (0,0) the replication
\* count floor(|V|)+2 covers the new cell, so that the builder returns
\* original_count*(p^2+q^2) atoms
C7_RepetitionsCoverTheCell ==
    (Built /\ raised = "none" /\ IntegerChirality(chirality))
        => Len(result) = Len(atoms) * SquaredLength(chirality)

\* the reduced coordinate the builder's rotation and dilation give the
\* lattice vector V = p*a1 + q*a2
ImageOfChirality(c, basis) ==
    dilate_atom_grid_xy(
        rotate_atom_grid_xy(<<Atom(0, Coordinate(<<c[1], c[2], PyInt(0)>>, "reduced"))>>,
                            xy_angle_to_rotate(basis, c), basis),
        normalization_factor(basis, c))[1].coord.coordinate_array

\* C8: for every integer chirality other than (0,0), with q positive, zero
\* or negative, the rotation and the dilation map V onto (1,0,0)
C8_ChiralityVectorOntoFirstAxis ==
    (Built /\ raised = "none" /\ IntegerChirality(chirality))
        => With(ImageOfChirality(chirality, orthonormal_basis), LAMBDA image :
               /\ NumEq(image[1], PyInt(1))
               /\ NumEq(image[2], PyInt(0))
               /\ NumEq(image[3], PyInt(0)))

\* C9: the builder fails with the assertion error, before any tiling, when
\* the chirality vector has a third component that is not zero; a vector of
\* two components, or of three with the third 0, passes the assert
C9_ThirdComponentMustBeZero ==
    Built
        => /\ (Len(chirality) >= 3 /\ ~IsZero(chirality[3]))
                 => (raised = "AssertionError" /\ result = <<>>)
           /\ (Len(chirality) = 2 \/ (Len(chirality) = 3 /\ IsZero(chirality[3])))
                 => raised # "AssertionError"

C9_Witness ==
    /\ Built
    /\ Len(chirality) = 3
    /\ ~IsZero(chirality[3])
    /\ Len(atoms) > 0
    /\ raised = "AssertionError"

\* C10: a chirality vector with a component that is no integer is rejected
\* with a failure, and no transformed atom list is produced
C10_NonIntegerChiralityRejected ==
    ((Built \/ Commanded) /\ \E i \in 1..Len(chirality) : chirality[i].d # 1)
        => /\ raised # "none"
           /\ result = <<>>

\* C11: the chiral-cell command accepts a make_chirality value [p, q, 0] of
\* three components and builds the cell for the chirality (p, q) from it
C11_CommandAcceptsThreeComponents ==
    (Commanded /\ Len(chirality) = 3 /\ IsZero(chirality[3]))
        => /\ raised = "none"
           /\ result = generate_xy_chiral_cell(atoms,
                           <<chirality[1], chirality[2]>>, rhombus_basis).val

----------------------------------------------------------------------------
(* dope_cell.py                                                            *)

\* the largest number of atoms and of dopants of a doping call
MaxDopeAtoms == 3

MaxDopants == 2

\* the index of the last atom of the list whose coord == the dopant's
last_match(list, doping_atom) ==
    LET matches == {i \in 1..Len(list) : Coordinate_eq(list[i].coord, doping_atom.coord)}
    IN  IF matches = {} THEN 0
        ELSE CHOOSE i \in matches : \A j \in matches : i >= j

\* the index of the first atom of the list whose coord == the dopant's, the
\* atom the inner loop stops at; 0 when the loop ends without a match
first_match(list, doping_atom) ==
    LET matches == {i \in 1..Len(list) : Coordinate_eq(list[i].coord, doping_atom.coord)}
    IN  IF matches = {} THEN 0
        ELSE CHOOSE i \in matches : \A j \in matches : i <= j

\* atom.znucl = doping_atom.znucl on the atom at index i
with_znucl(list, i, znucl) == [list EXCEPT ![i].znucl = znucl]

\* the loop that goes on with the later dopants after an unmatched one
RECURSIVE dope_from_raising_late(_, _, _)
dope_from_raising_late(list, doping_atoms_list, n) ==
    IF n > Len(doping_atoms_list) THEN [exc |-> "none", list |-> list]
    ELSE IF first_match(list, doping_atoms_list[n]) = 0
    THEN [dope_from_raising_late(list, doping_atoms_list, n + 1)
             EXCEPT !.exc = "RuntimeError"]
    ELSE dope_from_raising_late(
             with_znucl(list, first_match(list, doping_atoms_list[n]),
                        doping_atoms_list[n].znucl),
             doping_atoms_list, n + 1)

\* the loop over the dopants from the n-th on; list is the atom list as the
\* earlier dopants left it.  The value is the error the loop ends with and
\* the atom list as it is then
RECURSIVE dope_from(_, _, _)
dope_from(list, doping_atoms_list, n) ==
    IF n > Len(doping_atoms_list) THEN [exc |-> "none", list |-> list]
    ELSE IF first_match(list, doping_atoms_list[n]) = 0
    THEN [exc |-> "RuntimeError", list |-> list]
    ELSE dope_from(with_znucl(list, first_match(list, doping_atoms_list[n]),
                              doping_atoms_list[n].znucl),
                   doping_atoms_list, n + 1)

\* dope_atoms(atoms_list, doping_atoms_list): the list object is changed in
\* place and is the value returned
dope_atoms(list, doping_atoms_list) == dope_from(list, doping_atoms_list, 1)

\* atoms and dopants as parse_atoms builds them
DopeCoordinates ==
    {Coordinate(<<PyInt(0), PyInt(0), PyInt(0)>>, "reduced"),
     Coordinate(<<Fraction(1, 2), PyInt(0), PyInt(0)>>, "reduced")}

DopantCoordinates ==
    {Coordinate(<<PyInt(0), PyInt(0), PyInt(0)>>, "reduced"),
     Coordinate(<<PyFloat(1, 2), PyInt(0), PyInt(0)>>, "reduced"),
     Coordinate(<<PyFloat(3, 10), PyInt(0), PyInt(0)>>, "reduced")}

DopeAtomPool == {Atom(z, c) : z \in {6, 14}, c \in DopeCoordinates}

DopantPool == {Atom(z, c) : z \in {5, 7}, c \in DopantCoordinates}

InitDope ==
    /\ atoms \in SeqsUpTo(DopeAtomPool, MaxDopeAtoms)
    /\ atoms_object = atoms
    /\ args = <<>>
    /\ op = "none"
    /\ factor = <<>>
    /\ num_times = 0
    /\ chirality = <<>>
    /\ acell = <<>>
    /\ result = <<>>
    /\ raised = "none"
    /\ locals = <<>>

\* dope_atoms(atoms_list, doping_atoms_list); a successful call returns the
\* list object it was given
DopeAtoms ==
    /\ op = "none"
    /\ \E doping_atoms_list \in SeqsUpTo(DopantPool, MaxDopants) :
          \E r \in {dope_atoms(atoms_object, doping_atoms_list)} :
              /\ op' = "dope_atoms"
              /\ args' = [doping_atoms_list |-> doping_atoms_list]
              /\ atoms_object' = r.list
              /\ result' = IF r.exc = "none" THEN r.list ELSE <<>>
              /\ raised' = r.exc
    /\ UNCHANGED <<atoms, factor, num_times, chirality, acell, locals>>

NextDope == DopeAtoms

SpecDope == InitDope /\ [][NextDope]_vars

Doped == op = "dope_atoms"

\* the index in the list given to dope_atoms of the atom a dopant matches:
\* the first atom with the dopant's coordinate, 0 when there is none
MatchedAtom(doping_atom) ==
    IF \A i \in 1..Len(atoms) : ~Coordinate_eq(atoms[i].coord, doping_atom.coord)
    THEN 0
    ELSE CHOOSE i \in 1..Len(atoms) :
             /\ Coordinate_eq(atoms[i].coord, doping_atom.coord)
             /\ \A j \in 1..(i - 1) : ~Coordinate_eq(atoms[j].coord, doping_atom.coord)

EveryDopantMatches ==
    \A k \in 1..Len(args.doping_atoms_list) : MatchedAtom(args.doping_atoms_list[k]) # 0

\* the dopants among the first n that match the atom at index i
DopantsOf(i, n) ==
    {k \in 1..n : k <= Len(args.doping_atoms_list)
                  /\ MatchedAtom(args.doping_atoms_list[k]) = i}

\* the list has the atoms of the list given, in their order and with their
\* coordinates, and the atoms matched by no dopant have their atomic number
SameGeometry(list) ==
    /\ Len(list) = Len(atoms)
    /\ \A i \in 1..Len(atoms) :
          /\ list[i].coord = atoms[i].coord
          /\ DopantsOf(i, Len(args.doping_atoms_list)) = {} => list[i].znucl = atoms[i].znucl

\* C12 as stated: when every dopant matches an atom, the result has the
\* length, coordinates and order of the input, the matched atom of each
\* dopant has the dopant's atomic number and the other atoms keep theirs
C12_EveryDopantOnItsAtom ==
    (Doped /\ EveryDopantMatches)
        => /\ raised = "none"
           /\ SameGeometry(result)
           /\ \A k \in 1..Len(args.doping_atoms_list) :
                  result[MatchedAtom(args.doping_atoms_list[k])].znucl
                      = args.doping_atoms_list[k].znucl

\* C12 amended: when every dopant matches an atom, the result has the
\* length, coordinates and order of the input, every matched atom has the
\* atomic number of the last dopant that matches it and the other atoms
\* keep theirs
C12_LastDopantOnItsAtom ==
    (Doped /\ EveryDopantMatches)
        => /\ raised = "none"
           /\ SameGeometry(result)
           /\ \A k \in 1..Len(args.doping_atoms_list) :
                  (\A later \in (k + 1)..Len(args.doping_atoms_list) :
                       MatchedAtom(args.doping_atoms_list[later])
                           # MatchedAtom(args.doping_atoms_list[k]))
                  => result[MatchedAtom(args.doping_atoms_list[k])].znucl
                         = args.doping_atoms_list[k].znucl

C12_Witness ==
    /\ Doped
    /\ raised = "none"
    /\ Len(atoms) = 3
    /\ Len(args.doping_atoms_list) = 2
    /\ MatchedAtom(args.doping_atoms_list[1]) = 2
    /\ MatchedAtom(args.doping_atoms_list[2]) = 1
    /\ result[1].znucl = 7
    /\ result[2].znucl = 5
    /\ result[3].znucl = atoms[3].znucl

\* the index of the first dopant that matches no atom
FirstUnmatched ==
    CHOOSE k \in 1..Len(args.doping_atoms_list) :
        /\ MatchedAtom(args.doping_atoms_list[k]) = 0
        /\ \A j \in 1..(k - 1) : MatchedAtom(args.doping_atoms_list[j]) # 0

\* the list has, on every atom, the atomic number of the last of the first n
\* dopants that matches it
DopedByFirst(list, n) ==
    \A i \in 1..Len(atoms) :
        IF DopantsOf(i, n) = {} THEN list[i].znucl = atoms[i].znucl
        ELSE \E k \in DopantsOf(i, n) :
                 /\ \A j \in DopantsOf(i, n) : j <= k
                 /\ list[i].znucl = args.doping_atoms_list[k].znucl

\* C13: dope_atoms takes the dopants in list order and fails with the
\* no-matching-atom error at the first dopant that matches no atom; the
\* atom list then carries the substitutions of the earlier dopants and of no
\* later one
C13_AbortsAtFirstUnmatchedDopant ==
    (Doped /\ ~EveryDopantMatches)
        => /\ raised = "RuntimeError"
           /\ result = <<>>
           /\ Len(atoms_object) = Len(atoms)
           /\ \A i \in 1..Len(atoms) : atoms_object[i].coord = atoms[i].coord
           /\ DopedByFirst(atoms_object, FirstUnmatched - 1)

C13_Witness ==
    /\ Doped
    /\ raised = "RuntimeError"
    /\ Len(args.doping_atoms_list) = 2
    /\ FirstUnmatched = 2
    /\ atoms_object # atoms

\* C14: after a successful dope_atoms no atom whose coordinate equals a
\* dopant's coordinate still has its old atomic number, also when several
\* atoms share that coordinate
C14_EveryMatchingAtomDoped ==
    (Doped /\ raised = "none")
        => \A i \in 1..Len(result) :
               (\E k \in 1..Len(args.doping_atoms_list) :
                    Coordinate_eq(result[i].coord, args.doping_atoms_list[k].coord))
               => \E k \in 1..Len(args.doping_atoms_list) :
                      /\ Coordinate_eq(result[i].coord, args.doping_atoms_list[k].coord)
                      /\ result[i].znucl = args.doping_atoms_list[k].znucl

\* C15: after the call of a core operation the input atom list and each of
\* its atoms have the atomic numbers and coordinates they had before
C15_InputListUnchanged == atoms_object = atoms

----------------------------------------------------------------------------
(* manipulate_cell.get_collisions                                          *)

MaxCollisionAtoms == 3

\* the subtraction without the test of the coordinate systems
Coordinate_sub_unchecked(self, other) ==
    Coordinate_op_list(NumSub, self, other.coordinate_array)

Coordinate_sub(self, other) == Coordinate_op_coordinate(NumSub, self, other)

\* Coordinate.norm: sum([val * val ...]) ** 0.5
norm(self) ==
    Sqrt(ToFloat(dotproduct(self.coordinate_array, self.coordinate_array)))

\* the test with <= in the place of <
not_farther_than(difference, distance_threshold) ==
    NumLe(norm(difference), distance_threshold)

\* (atoms[i].coord - atoms[j].coord).norm() < distance_threshold
closer_than(difference, distance_threshold) ==
    NumLt(norm(difference), distance_threshold)

\* the pairs the generator yields from the pair (i, j) of the loops on, and
\* the error that ends it
RECURSIVE collisions_from(_, _, _, _)
collisions_from(list, distance_threshold, i, j) ==
    IF i > Len(list) THEN Ok(<<>>)
    ELSE IF j > Len(list) THEN collisions_from(list, distance_threshold, i + 1, i + 2)
    ELSE With(Coordinate_sub(list[i].coord, list[j].coord), LAMBDA difference :
             IF difference.exc # "none" THEN Raise(difference.exc)
             ELSE With(collisions_from(list, distance_threshold, i, j + 1), LAMBDA rest :
                      IF closer_than(difference.val, distance_threshold)
                      THEN [rest EXCEPT !.val = <<<<list[i], list[j]>>>> \o rest.val]
                      ELSE rest))

\* list(get_collisions(atoms, distance_threshold))
get_collisions(list, distance_threshold) ==
    collisions_from(list, distance_threshold, 1, 2)

\* atoms at distances that are rational and that are not
CollisionAtomPool ==
    {Atom(14, Coordinate(<<PyInt(0), PyInt(0), PyInt(0)>>, "reduced")),
     Atom(5, Coordinate(<<PyInt(0), PyInt(0), PyInt(0)>>, "reduced")),
     Atom(14, Coordinate(<<PyFloat(1, 10), PyInt(0), PyInt(0)>>, "reduced")),
     Atom(14, Coordinate(<<PyFloat(1, 2), PyInt(0), PyInt(0)>>, "reduced")),
     Atom(14, Coordinate(<<Fraction(1, 2), Fraction(1, 2), PyInt(0)>>, "reduced"))}

\* atoms on the first axis, 0.0001 and 0.5 away from the origin
AxisAtomPool ==
    {Atom(14, Coordinate(<<PyInt(0), PyInt(0), PyInt(0)>>, "reduced")),
     Atom(14, Coordinate(<<PyFloat(1, 10000), PyInt(0), PyInt(0)>>, "reduced")),
     Atom(14, Coordinate(<<PyFloat(1, 2), PyInt(0), PyInt(0)>>, "reduced"))}

\* 0.001 is the default threshold
Thresholds == {PyFloat(1, 1000), PyInt(0), PyFloat(1, 5), PyFloat(1, 2), PyInt(1)}

InitCollisions ==
    /\ atoms \in SeqsUpTo(CollisionAtomPool, MaxCollisionAtoms)
                 \cup SeqsUpTo(AxisAtomPool, MaxCollisionAtoms)
    /\ atoms_object = atoms
    /\ args = <<>>
    /\ op = "none"
    /\ factor = <<>>
    /\ num_times = 0
    /\ chirality = <<>>
    /\ acell = <<>>
    /\ result = <<>>
    /\ raised = "none"
    /\ locals = <<>>

GetCollisions ==
    /\ op = "none"
    /\ \E distance_threshold \in Thresholds :
          \E r \in {get_collisions(atoms_object, distance_threshold)} :
              /\ op' = "get_collisions"
              /\ args' = [distance_threshold |-> distance_threshold]
              /\ result' = r.val
              /\ raised' = r.exc
    /\ UNCHANGED <<atoms, factor, num_times, chirality, acell, atoms_object, locals>>

NextCollisions == GetCollisions

SpecCollisions == InitCollisions /\ [][NextCollisions]_vars

Collided == op = "get_collisions"

\* a coordinate component or threshold, a multiple of 1/10000, in units of
\* 1/10000
InUnits(x) == x.a * (10000 \div x.d)

\* the square of the distance of the atoms i and j of the list, in units
SquaredDistance(i, j) ==
    LET x == atoms[i].coord.coordinate_array
        y == atoms[j].coord.coordinate_array
        d == [n \in 1..3 |-> InUnits(x[n]) - InUnits(y[n])]
    IN  d[1] * d[1] + d[2] * d[2] + d[3] * d[3]

\* the pairs i < j of atoms whose distance is strictly below the threshold
ClosePairs ==
    {p \in (1..Len(atoms)) \X (1..Len(atoms)) :
        /\ p[1] < p[2]
        /\ InUnits(args.distance_threshold) > 0
        /\ SquaredDistance(p[1], p[2])
               < InUnits(args.distance_threshold) * InUnits(args.distance_threshold)}

PairNotAfter(p, q) == p[1] < q[1] \/ (p[1] = q[1] /\ p[2] <= q[2])

\* C16: get_collisions yields exactly the pairs (atoms[i], atoms[j]), i < j,
\* whose distance is strictly below the threshold, each once, in increasing
\* (i, j) order
C16_CollisionsAreTheClosePairs ==
    Collided
        => /\ raised = "none"
           /\ Len(result) = Cardinality(ClosePairs)
           /\ \A p \in ClosePairs :
                  result[Cardinality({q \in ClosePairs : PairNotAfter(q, p)})]
                      = <<atoms[p[1]], atoms[p[2]]>>

C16_Witness ==
    /\ Collided
    /\ args.distance_threshold = PyFloat(1, 1000)
    /\ Len(atoms) = 3
    /\ atoms[1].coord.coordinate_array = <<PyInt(0), PyInt(0), PyInt(0)>>
    /\ atoms[2].coord.coordinate_array = <<PyFloat(1, 2), PyInt(0), PyInt(0)>>
    /\ atoms[3].coord.coordinate_array = <<PyFloat(1, 10000), PyInt(0), PyInt(0)>>
    /\ result = << <<atoms[1], atoms[3]>> >>

----------------------------------------------------------------------------
(* Coordinate arithmetic on two Coordinates                                *)

Coordinate_mul(self, other) == Coordinate_op_coordinate(NumMul, self, other)

Coordinate_div(self, other) ==
    IF self.coordinate_system # other.coordinate_system THEN Raise("RuntimeError")
    ELSE Coordinate_div_list(self, other.coordinate_array)

\* self + other, self - other, self * other, self / other
Coordinate_operation(operator, self, other) ==
    CASE operator = "__add__" -> Coordinate_add(self, other)
      [] operator = "__sub__" -> Coordinate_sub(self, other)
      [] operator = "__mul__" -> Coordinate_mul(self, other)
      [] operator = "__div__" -> Coordinate_div(self, other)

Operators == {"__add__", "__sub__", "__mul__", "__div__"}

CoordinateArrays ==
    {<<PyInt(0), PyInt(0), PyInt(0)>>,
     <<PyInt(1), PyInt(2), PyInt(3)>>,
     <<Fraction(1, 2), Fraction(1, 3), PyInt(1)>>,
     <<PyFloat(1, 2), PyInt(2), Fraction(1, 4)>>}

CoordinatePool == {Coordinate(a, s) : a \in CoordinateArrays, s \in Systems}

InitCoordinate ==
    /\ atoms = <<>>
    /\ atoms_object = atoms
    /\ args = <<>>
    /\ op = "none"
    /\ factor = <<>>
    /\ num_times = 0
    /\ chirality = <<>>
    /\ acell = <<>>
    /\ result = <<>>
    /\ raised = "none"
    /\ locals = <<>>

\* self <operator> other for two Coordinates
CoordinateOperation ==
    /\ op = "none"
    /\ \E operator \in Operators, self \in CoordinatePool, other \in CoordinatePool :
          \E r \in {Coordinate_operation(operator, self, other)} :
              /\ op' = "coordinate_operation"
              /\ args' = [operator |-> operator, self |-> self, other |-> other]
              /\ result' = r.val
              /\ raised' = r.exc
    /\ UNCHANGED <<atoms, factor, num_times, chirality, acell, atoms_object, locals>>

----------------------------------------------------------------------------
(* Coordinate.parse_coordinate_value_array                                 *)

\* the largest length of a raw coordinate array
MaxRawLength == 3

\* A raw literal is a record with its Python type t: a number ("number",
\* with the value v), a string ("str", of the kind s: "fraction" for "A/B",
\* "decimal" for "0.5", "digits" for "3", "word" for a string that is none
\* of these, with the value v it denotes), a dict ("dict", with the keys
\* numerator and denominator, the key value, or neither: s is
\* "numerator_denominator", "value" or "unknown") or None ("none").
NumberLiteral(v) == [t |-> "number", s |-> "", v |-> v]

StringLiteral(s, v) == [t |-> "str", s |-> s, v |-> v]

DictLiteral(s, v) == [t |-> "dict", s |-> s, v |-> v]

NoneLiteral == [t |-> "none", s |-> "", v |-> PyInt(0)]

\* the local coordinate_index_value before its first assignment
Unbound == [bound |-> FALSE, v |-> PyInt(0)]

Bound(v) == [bound |-> TRUE, v |-> v]

\* Fraction(...) of the value v a literal denotes
AsFraction(v) == [v EXCEPT !.k = "frac"]

\* parse_fraction_from_dict(fraction_dict)
parse_fraction_from_dict(fraction_dict) ==
    IF fraction_dict.s \in {"numerator_denominator", "value"}
    THEN Ok(AsFraction(fraction_dict.v))
    ELSE Raise("TypeError")

\* the string branch: a string without '/' goes on to the test
\* "'.' in coordinate_index_value", on the value of the element before
parse_string(coordinate_index, coordinate_index_value) ==
    IF coordinate_index.s = "fraction" THEN Ok(AsFraction(coordinate_index.v))
    ELSE IF ~coordinate_index_value.bound THEN Raise("UnboundLocalError")
    ELSE Raise("TypeError")

\* the body of the loop for one element
parse_element(coordinate_index, coordinate_index_value) ==
    IF coordinate_index.t = "dict" THEN parse_fraction_from_dict(coordinate_index)
    ELSE IF coordinate_index.t = "str"
    THEN parse_string(coordinate_index, coordinate_index_value)
    ELSE IF coordinate_index.t = "number" THEN Ok(coordinate_index.v)
    ELSE Raise("RuntimeError")

\* the loop from the i-th element on
RECURSIVE parse_from(_, _, _)
parse_from(raw_coordinate_array, i, coordinate_index_value) ==
    IF i > Len(raw_coordinate_array) THEN Ok(<<>>)
    ELSE With(parse_element(raw_coordinate_array[i], coordinate_index_value),
              LAMBDA element :
                  IF element.exc # "none" THEN element
                  ELSE With(parse_from(raw_coordinate_array, i + 1, Bound(element.val)),
                            LAMBDA rest :
                                IF rest.exc # "none" THEN rest
                                ELSE Ok(<<element.val>> \o rest.val)))

parse_coordinate_value_array(raw_coordinate_array) ==
    parse_from(raw_coordinate_array, 1, Unbound)

Literals ==
    {NumberLiteral(PyInt(3)), NumberLiteral(PyFloat(1, 2)),
     StringLiteral("fraction", Fraction(1, 3)),
     StringLiteral("decimal", PyFloat(1, 2)),
     StringLiteral("digits", PyInt(3)),
     StringLiteral("word", PyInt(0)),
     DictLiteral("numerator_denominator", Fraction(2, 3)),
     DictLiteral("value", Fraction(1, 4)),
     DictLiteral("unknown", PyInt(0)),
     NoneLiteral}

\* Coordinate(raw_coordinate_array, "reduced")
ParseCoordinateValueArray ==
    /\ op = "none"
    /\ \E raw_coordinate_array \in SeqsUpTo(Literals, MaxRawLength) :
          \E r \in {parse_coordinate_value_array(raw_coordinate_array)} :
              /\ op' = "parse_coordinate_value_array"
              /\ args' = [raw_coordinate_array |-> raw_coordinate_array]
              /\ result' = IF r.exc = "none" THEN Coordinate(r.val, "reduced") ELSE <<>>
              /\ raised' = r.exc
    /\ UNCHANGED <<atoms, factor, num_times, chirality, acell, atoms_object, locals>>

NextCoordinate == CoordinateOperation \/ ParseCoordinateValueArray

SpecCoordinate == InitCoordinate /\ [][NextCoordinate]_vars

Operated == op = "coordinate_operation"

\* the result of the operation of Python on two components
Componentwise(operator, x, y) ==
    CASE operator = "__add__" -> NumAdd(x, y)
      [] operator = "__sub__" -> NumSub(x, y)
      [] operator = "__mul__" -> NumMul(x, y)
      [] operator = "__div__" -> NumDiv(x, y)

\* the operation has a result on every component: no division by zero
ComponentsDefined ==
    args.operator = "__div__"
        => \A i \in 1..Len(args.other.coordinate_array) :
               ~IsZero(args.other.coordinate_array[i])

\* C17: an operation on two Coordinates fails with the incompatible
\* coordinate system error, without a result, when the system tags differ;
\* when they are equal it gives a Coordinate with that tag whose components
\* are the component-wise results
C17_SystemsMustAgree ==
    Operated
        => /\ args.self.coordinate_system # args.other.coordinate_system
                 => (raised = "RuntimeError" /\ result = <<>>)
           /\ args.self.coordinate_system = args.other.coordinate_system
                 => /\ raised # "RuntimeError"
                    /\ ComponentsDefined
                          => /\ raised = "none"
                             /\ result.coordinate_system = args.self.coordinate_system
                             /\ Len(result.coordinate_array) = Len(args.self.coordinate_array)
                             /\ \A i \in 1..Len(args.self.coordinate_array) :
                                    result.coordinate_array[i]
                                        = Componentwise(args.operator,
                                                        args.self.coordinate_array[i],
                                                        args.other.coordinate_array[i])

C17_Witness ==
    /\ Operated
    /\ args.operator = "__div__"
    /\ args.self.coordinate_system = "reduced"
    /\ args.other.coordinate_system = "reduced"
    /\ args.self.coordinate_array = <<PyInt(1), PyInt(2), PyInt(3)>>
    /\ args.other.coordinate_array = <<Fraction(1, 2), Fraction(1, 3), PyInt(1)>>
    /\ raised = "none"
    /\ result = Coordinate(<<Fraction(2, 1), Fraction(6, 1), PyInt(3)>>, "reduced")

Parsed == op = "parse_coordinate_value_array"

\* a literal the parser is to read: a number, an "A/B" string, a decimal
\* string, or a record with numerator and denominator or with value
SupportedLiteral(literal) ==
    \/ literal.t = "number"
    \/ literal.t = "str" /\ literal.s \in {"fraction", "decimal"}
    \/ literal.t = "dict" /\ literal.s \in {"numerator_denominator", "value"}

\* the number a supported literal denotes: a float for a decimal string,
\* the number itself for a number, the exact fraction otherwise
Denoted(literal) ==
    IF literal.t = "number" THEN literal.v
    ELSE IF literal.s = "decimal" THEN ToFloat(literal.v)
    ELSE AsFraction(literal.v)

\* C18: for an array of supported literals the parser returns the values
\* the literals denote, exact for integers, "A/B" strings and records, a
\* float for a decimal string, and does not end in an error
C18_SupportedLiteralsParse ==
    (Parsed /\ \A i \in 1..Len(args.raw_coordinate_array) :
                   SupportedLiteral(args.raw_coordinate_array[i]))
        => /\ raised = "none"
           /\ Len(result.coordinate_array) = Len(args.raw_coordinate_array)
           /\ \A i \in 1..Len(args.raw_coordinate_array) :
                  result.coordinate_array[i] = Denoted(args.raw_coordinate_array[i])

\* a literal the parser is to refuse: a string that is no fraction, decimal
\* or digit string, or a record of an unsupported shape
MalformedLiteral(literal) ==
    \/ literal.t = "str" /\ literal.s = "word"
    \/ literal.t = "dict" /\ literal.s = "unknown"

\* C19: an array whose first literal that is no number is a malformed one
\* ends in the parser's own error (a RuntimeError that names the literal and
\* the array), and no Coordinate is created
C19_MalformedLiteralRefused ==
    (Parsed /\ \E i \in 1..Len(args.raw_coordinate_array) :
                   /\ MalformedLiteral(args.raw_coordinate_array[i])
                   /\ \A j \in 1..(i - 1) : args.raw_coordinate_array[j].t = "number")
        => /\ raised = "RuntimeError"
           /\ result = <<>>

----------------------------------------------------------------------------
(* merge.experiment_union                                                  *)

\* the largest length of the direct list of an experiment
MaxDirect == 1

\* Experiment(direct, meta): direct is a list of attributes, meta a dict,
\* here a function on its keys
Experiment(direct, meta) == [direct |-> direct, meta |-> meta]

\* the value that always takes the second experiment's setting
colliding_value_always_last(collision_resolution, original, other) == other

\* the value of result_meta[key] after the loop body for a key of both
\* experiments, for 'keep_original' and 'overwrite'
colliding_value(collision_resolution, original, other) ==
    IF collision_resolution = "overwrite" THEN other ELSE original

\* the loop over the keys of experiment_two.meta that are still to come
RECURSIVE merge_meta(_, _, _, _)
merge_meta(result_meta, meta_two, keys, collision_resolution) ==
    IF keys = {} THEN Ok(result_meta)
    ELSE LET key == CHOOSE k \in keys : TRUE
         IN  IF key \in DOMAIN result_meta
             THEN IF collision_resolution \in {"keep_original", "overwrite"}
                  THEN merge_meta(
                           [result_meta EXCEPT ![key] =
                               colliding_value(collision_resolution, result_meta[key],
                                               meta_two[key])],
                           meta_two, keys \ {key}, collision_resolution)
                  ELSE Raise("RuntimeError")
             ELSE merge_meta(
                      [k \in DOMAIN result_meta \cup {key} |->
                          IF k = key THEN meta_two[key] ELSE result_meta[k]],
                      meta_two, keys \ {key}, collision_resolution)

experiment_union(experiment_one, experiment_two, collision_resolution) ==
    With(merge_meta(experiment_one.meta, experiment_two.meta,
                    DOMAIN experiment_two.meta, collision_resolution),
         LAMBDA result_meta :
             IF result_meta.exc # "none" THEN result_meta
             ELSE Ok(Experiment(experiment_one.direct \o experiment_two.direct,
                                result_meta.val)))

MetaKeys == {"atoms", "repeat_cell"}

MetaValues == {"a", "b"}

Metas == UNION {[keys -> MetaValues] : keys \in SUBSET MetaKeys}

Attributes == {[name |-> n, value |-> v] : n \in {"acell", "ecut"}, v \in {"a"}}

Experiments == {Experiment(d, m) : d \in SeqsUpTo(Attributes, MaxDirect), m \in Metas}

\* 'raise' is the default; any other string is treated as 'raise'
CollisionResolutions == {"raise", "keep_original", "overwrite", "other"}

InitMerge ==
    /\ atoms = <<>>
    /\ atoms_object = atoms
    /\ args = <<>>
    /\ op = "none"
    /\ factor = <<>>
    /\ num_times = 0
    /\ chirality = <<>>
    /\ acell = <<>>
    /\ result = <<>>
    /\ raised = "none"
    /\ locals = <<>>

ExperimentUnion ==
    /\ op = "none"
    /\ \E experiment_one \in Experiments, experiment_two \in Experiments,
          collision_resolution \in CollisionResolutions :
          \E r \in {experiment_union(experiment_one, experiment_two, collision_resolution)} :
              /\ op' = "experiment_union"
              /\ args' = [experiment_one |-> experiment_one,
                          experiment_two |-> experiment_two,
                          collision_resolution |-> collision_resolution]
              /\ result' = r.val
              /\ raised' = r.exc
    /\ UNCHANGED <<atoms, factor, num_times, chirality, acell, atoms_object, locals>>

NextMerge == ExperimentUnion

SpecMerge == InitMerge /\ [][NextMerge]_vars

Merged == op = "experiment_union"

KeysOfOne == DOMAIN args.experiment_one.meta

KeysOfTwo == DOMAIN args.experiment_two.meta

\* C20: the meta of the union has every key of either experiment; a key of
\* one experiment only has that experiment's value; a key of both has the
\* first experiment's value with 'keep_original' and the second's with
\* 'overwrite', and with 'raise' the call raises a RuntimeError and returns
\* nothing; the direct list is the first's followed by the second's
C20_UnionOfExperiments ==
    (Merged /\ args.collision_resolution \in {"raise", "keep_original", "overwrite"})
        => IF args.collision_resolution = "raise" /\ KeysOfOne \cap KeysOfTwo # {}
           THEN raised = "RuntimeError" /\ result = <<>>
           ELSE /\ raised = "none"
                /\ DOMAIN result.meta = KeysOfOne \cup KeysOfTwo
                /\ \A key \in KeysOfOne \ KeysOfTwo :
                       result.meta[key] = args.experiment_one.meta[key]
                /\ \A key \in KeysOfTwo \ KeysOfOne :
                       result.meta[key] = args.experiment_two.meta[key]
                /\ \A key \in KeysOfOne \cap KeysOfTwo :
                       /\ args.collision_resolution = "keep_original"
                             => result.meta[key] = args.experiment_one.meta[key]
                       /\ args.collision_resolution = "overwrite"
                             => result.meta[key] = args.experiment_two.meta[key]
                /\ result.direct = args.experiment_one.direct \o args.experiment_two.direct

C20_Witness ==
    /\ Merged
    /\ args.collision_resolution = "keep_original"
    /\ KeysOfOne = {"atoms"}
    /\ KeysOfTwo = {"atoms", "repeat_cell"}
    /\ args.experiment_one.meta["atoms"] # args.experiment_two.meta["atoms"]
    /\ Len(args.experiment_one.direct) = 1
    /\ Len(args.experiment_two.direct) = 1
    /\ args.experiment_one.direct # args.experiment_two.direct
    /\ raised = "none"
    /\ result.meta["atoms"] = args.experiment_one.meta["atoms"]
    /\ result.direct[1] = args.experiment_one.direct[1]

NamesOf(direct) == {direct[i].name : i \in 1..Len(direct)}

SpecifiedInBoth ==
    \/ KeysOfOne \cap KeysOfTwo # {}
    \/ NamesOf(args.experiment_one.direct) \cap NamesOf(args.experiment_two.direct) # {}

\* C21: with 'raise', a union of two experiments that specify the same
\* setting, a meta key of both or a direct attribute name of both, raises a
\* RuntimeError, so a union that returns holds no direct name twice
C21_RaiseOnEverySettingOfBoth ==
    (Merged /\ args.collision_resolution = "raise")
        => /\ SpecifiedInBoth => raised = "RuntimeError"
           /\ raised = "none" =>
                  \A i, j \in 1..Len(result.direct) :
                      result.direct[i].name = result.direct[j].name => i = j

----------------------------------------------------------------------------
(* convert_abinit_input_from_atoms_to_direct.main                          *)

\* the largest number of atoms in meta.atoms of a converted experiment
MaxConvertAtoms == 3

\* the largest length of the direct list of a converted experiment
MaxConvertDirect == 1

\* a value of the loaded JSON that may be null
None == [is_none |-> TRUE, value |-> <<>>]

Some(value) == [is_none |-> FALSE, value |-> value]

\* meta of an experiment without settings
EmptyMeta == [key \in {} |-> None]

SimpleAttribute(name, value) == [name |-> name, value |-> value]

\* one step of a stable sort: atom goes behind every atom whose znucl is not
\* greater
RECURSIVE insert_by_znucl(_, _)
insert_by_znucl(sorted_atoms, atom) ==
    IF sorted_atoms = <<>> THEN <<atom>>
    ELSE IF sorted_atoms[Len(sorted_atoms)].znucl <= atom.znucl
         THEN Append(sorted_atoms, atom)
         ELSE Append(insert_by_znucl(SubSeq(sorted_atoms, 1, Len(sorted_atoms) - 1), atom),
                     sorted_atoms[Len(sorted_atoms)])

\* sorted(atoms, key=lambda atom: atom.znucl): the sort of Python is stable
RECURSIVE sorted_by_znucl(_)
sorted_by_znucl(atoms_list) ==
    IF atoms_list = <<>> THEN <<>>
    ELSE insert_by_znucl(sorted_by_znucl(SubSeq(atoms_list, 1, Len(atoms_list) - 1)),
                         atoms_list[Len(atoms_list)])

\* OrderedSet(values): each value once, in the order of its first occurrence
RECURSIVE OrderedSet(_)
OrderedSet(values) ==
    IF values = <<>> THEN <<>>
    ELSE With(OrderedSet(SubSeq(values, 1, Len(values) - 1)),
              LAMBDA seen :
                  IF \E i \in 1..Len(seen) : seen[i] = values[Len(values)]
                  THEN seen
                  ELSE Append(seen, values[Len(values)]))

\* the mapping that numbers the types as enumerate does, from 0
typat_from_zero(atom_types, znucl) ==
    (CHOOSE index \in 1..Len(atom_types) : atom_types[index] = znucl) - 1

\* znucl_to_typat_mapping[znucl]: index+1 for index, znucl in enumerate(atom_types)
znucl_to_typat_mapping(atom_types, znucl) ==
    ((CHOOSE index \in 1..Len(atom_types) : atom_types[index] = znucl) - 1) + 1

\* the five attributes main appends, for the sorted atoms
generated_attributes(sorted_atoms) ==
    With(OrderedSet([i \in 1..Len(sorted_atoms) |-> sorted_atoms[i].znucl]),
         LAMBDA atom_types :
             << SimpleAttribute("natom", Len(sorted_atoms)),
                SimpleAttribute("ntypat", Len(atom_types)),
                SimpleAttribute("znucl", atom_types),
                SimpleAttribute("typat",
                    [i \in 1..Len(sorted_atoms) |->
                        znucl_to_typat_mapping(atom_types, sorted_atoms[i].znucl)]),
                SimpleAttribute("xred",
                    [i \in 1..Len(sorted_atoms) |->
                        sorted_atoms[i].coord.coordinate_array]) >>)

\* main of the conversion, from the loaded experiment to the printed one
convert_main(experiment) ==
    IF DOMAIN experiment.meta # {} /\ "atoms" \in DOMAIN experiment.meta
    THEN IF experiment.meta.atoms.is_none
         THEN Raise("RuntimeError")
         ELSE Ok(Experiment(
                     experiment.direct
                         \o generated_attributes(
                                sorted_by_znucl(experiment.meta.atoms.value)),
                     [experiment.meta EXCEPT !.atoms = None]))
    ELSE Ok(experiment)

\* Experiment.get_direct_property: the first property of that name
get_direct_property(experiment, property_name) ==
    IF \E i \in 1..Len(experiment.direct) : experiment.direct[i].name = property_name
    THEN Ok(experiment.direct[
                CHOOSE i \in 1..Len(experiment.direct) :
                    /\ experiment.direct[i].name = property_name
                    /\ \A j \in 1..(i - 1) : experiment.direct[j].name # property_name])
    ELSE Raise("IndexError")

ConvertAtomPool ==
    {Atom(z, c) : z \in {1, 6, 8}, c \in DopeCoordinates}

\* direct attributes of the input: data under a generated name, and other data
ConvertAttributes ==
    {SimpleAttribute("natom", 99), SimpleAttribute("ecut", 10)}

InitConvert ==
    /\ atoms \in SeqsUpTo(ConvertAtomPool, MaxConvertAtoms)
    /\ atoms_object = atoms
    /\ args = <<>>
    /\ op = "none"
    /\ factor = <<>>
    /\ num_times = 0
    /\ chirality = <<>>
    /\ acell = <<>>
    /\ result = <<>>
    /\ raised = "none"
    /\ locals = <<>>

ConvertMain ==
    /\ op = "none"
    /\ \E direct \in SeqsUpTo(ConvertAttributes, MaxConvertDirect),
          meta \in {EmptyMeta, [atoms |-> Some(atoms)], [atoms |-> None]} :
          \E r \in {convert_main(Experiment(direct, meta))} :
              /\ op' = "convert_main"
              /\ args' = [experiment |-> Experiment(direct, meta)]
              /\ result' = r.val
              /\ raised' = r.exc
    /\ UNCHANGED <<atoms, factor, num_times, chirality, acell, atoms_object, locals>>

NextConvert == ConvertMain

SpecConvert == InitConvert /\ [][NextConvert]_vars

\* a conversion of an experiment with meta atoms has returned
Converted ==
    /\ op = "convert_main"
    /\ raised = "none"
    /\ "atoms" \in DOMAIN args.experiment.meta

GeneratedFields == {"natom", "ntypat", "znucl", "typat", "xred"}

\* the attribute main appended under that name
Generated(name) ==
    result.direct[CHOOSE i \in (Len(args.experiment.direct) + 1)..Len(result.direct) :
                      result.direct[i].name = name]

\* C22: after the conversion each generated field is once in the direct list
\* and a lookup by its name gives the generated value
C22_GeneratedFieldsOverwrite ==
    Converted =>
        \A name \in GeneratedFields :
            /\ Cardinality({i \in 1..Len(result.direct) : result.direct[i].name = name}) = 1
            /\ get_direct_property(result, name) = Ok(Generated(name))

InputAtoms == args.experiment.meta.atoms.value

AtomicNumbers == {InputAtoms[i].znucl : i \in 1..Len(InputAtoms)}

\* the orders of the input atoms in which atoms of one atomic number keep
\* their input order
OrdersKeepingEqualZnucl ==
    {order \in [1..Len(InputAtoms) -> 1..Len(InputAtoms)] :
        /\ \A i, j \in 1..Len(InputAtoms) : order[i] = order[j] => i = j
        /\ \A i, j \in 1..Len(InputAtoms) :
               (i < j /\ InputAtoms[order[i]].znucl = InputAtoms[order[j]].znucl)
                   => order[i] < order[j]}

\* C29: the generated fields agree: natom counts the atoms, ntypat the
\* distinct atomic numbers, znucl lists each of them once, typat indexes
\* znucl from 1, and row i of xred is the position of an atom whose atomic
\* number is znucl[typat[i]-1], atoms of one atomic number in input order
C29_GeneratedFieldsAgree ==
    Converted =>
        /\ Generated("natom").value = Len(InputAtoms)
        /\ Generated("ntypat").value = Cardinality(AtomicNumbers)
        /\ Len(Generated("znucl").value) = Cardinality(AtomicNumbers)
        /\ {Generated("znucl").value[t] : t \in 1..Len(Generated("znucl").value)}
               = AtomicNumbers
        /\ Len(Generated("typat").value) = Len(InputAtoms)
        /\ Len(Generated("xred").value) = Len(InputAtoms)
        /\ \A i \in 1..Len(InputAtoms) :
               Generated("typat").value[i] \in 1..Generated("ntypat").value
        /\ \E order \in OrdersKeepingEqualZnucl :
               \A i \in 1..Len(InputAtoms) :
                   /\ Generated("xred").value[i]
                          = InputAtoms[order[i]].coord.coordinate_array
                   /\ Generated("znucl").value[Generated("typat").value[i]]
                          = InputAtoms[order[i]].znucl

C29_Witness ==
    /\ Converted
    /\ Len(InputAtoms) = 3
    /\ InputAtoms[1].znucl = 8
    /\ InputAtoms[2].znucl = 1
    /\ InputAtoms[3].znucl = 8
    /\ InputAtoms[1].coord # InputAtoms[3].coord
    /\ Generated("znucl").value = <<1, 8>>
    /\ Generated("typat").value = <<1, 2, 2>>
    /\ Generated("xred").value[2] = InputAtoms[1].coord.coordinate_array
    /\ Generated("xred").value[3] = InputAtoms[3].coord.coordinate_array

----------------------------------------------------------------------------
(* repeat_atoms_in_unit_cell on exact coordinates, inside and outside the  *)
(* unit cell                                                               *)

\* the largest number of atoms of a list of exact atoms
MaxExactAtoms == 2

\* coordinates of ints and Fractions, with components outside [0,1)
ExactCoordinates ==
    { <<PyInt(1), PyInt(0), PyInt(0)>>,
      <<Fraction(3, 2), Fraction(1, 2), PyInt(-1)>>,
      <<Fraction(1, 3), Fraction(2, 3), PyInt(0)>> }

ExactAtomPool ==
    {Atom(z, Coordinate(c, sys)) : z \in {14}, c \in ExactCoordinates, sys \in Systems}

InitRepeatExact ==
    /\ atoms \in SeqsUpTo(ExactAtomPool, MaxExactAtoms)
    /\ atoms_object = atoms
    /\ args = <<>>
    /\ op = "none"
    /\ factor = <<>>
    /\ num_times = 0
    /\ chirality = <<>>
    /\ acell = <<>>
    /\ result = <<>>
    /\ raised = "none"
    /\ locals = <<>>

NextRepeatExact == RepeatAtomsInUnitCell

SpecRepeatExact == InitRepeatExact /\ [][NextRepeatExact]_vars

\* (x + i) / n as an exact quotient
ExactShare(x, i, n) == NumDiv(NumAdd([x EXCEPT !.k = "frac"], PyInt(i)), Fraction(n, 1))

SamePosition(array1, array2) ==
    /\ Len(array1) = Len(array2)
    /\ \A c \in 1..Len(array1) : NumEq(array1[c], array2[c])

\* the copies the repetition is to hold: <<index of the atom, i, j, k>>
ExpectedCopies ==
    {<<a, i, j, k>> : a \in 1..Len(atoms), i \in 0..(factor[1] - 1),
                      j \in 0..(factor[2] - 1), k \in 0..(factor[3] - 1)}

ExpectedPosition(t) ==
    [c \in 1..3 |-> ExactShare(atoms[t[1]].coord.coordinate_array[c], t[c + 1], factor[c])]

IsCopy(atom, t) ==
    /\ atom.znucl = atoms[t[1]].znucl
    /\ SamePosition(atom.coord.coordinate_array, ExpectedPosition(t))

\* C23: for exact components and factors >= 1 the result is, as a multiset,
\* the atoms (z, ((x+i)/nx, (y+j)/ny, (w+k)/nz)) with exact quotients, and
\* its first len(A) entries are the rescaled originals in input order
C23_ExactCopiesOfEveryAtom ==
    (Repeated /\ \A c \in 1..3 : factor[c] >= 1)
        => /\ raised = "none"
           /\ Len(result) = Cardinality(ExpectedCopies)
           /\ \A t \in ExpectedCopies :
                  Cardinality({m \in 1..Len(result) : IsCopy(result[m], t)})
                      = Cardinality({u \in ExpectedCopies :
                            /\ atoms[u[1]].znucl = atoms[t[1]].znucl
                            /\ SamePosition(ExpectedPosition(u), ExpectedPosition(t))})
           /\ \A a \in 1..Len(atoms) : IsCopy(result[a], <<a, 0, 0, 0>>)

\* C23, for the calls that return (atoms whose coordinate system is that of
\* the sub-cell vector): the result is the multiset of the exact copies
C23_ExactCopiesWhenReturned ==
    (Repeated /\ raised # "none") \/ C23_ExactCopiesOfEveryAtom

----------------------------------------------------------------------------
(* The builder with a basis argument: the filter and the rhombus basis     *)

\* the largest chirality component and atom count of a call with a basis
MaxBasisChirality == 2

MaxBasisAtoms == 1

BasisChiralities ==
    {<<PyInt(p), PyInt(q)>> : p, q \in (-MaxBasisChirality)..MaxBasisChirality}

\* the default basis of the builder and the basis main passes
Bases == {orthonormal_basis, rhombus_basis}

InitBasis ==
    /\ atoms \in SeqsUpTo(CellAtomPool, MaxBasisAtoms)
    /\ atoms_object = atoms
    /\ args = <<>>
    /\ op = "none"
    /\ factor = <<>>
    /\ num_times = 0
    /\ chirality = <<>>
    /\ acell = <<>>
    /\ result = <<>>
    /\ raised = "none"
    /\ locals = <<>>

\* generate_xy_chiral_cell(atoms, desired_chirality, real_unit_cell_basis)
GenerateXYChiralCellInBasis ==
    /\ op = "none"
    /\ \E desired_chirality \in BasisChiralities, real_unit_cell_basis \in Bases :
          \E r \in {generate_xy_chiral_cell(atoms, desired_chirality, real_unit_cell_basis)} :
              /\ op' = "generate_xy_chiral_cell_in_basis"
              /\ chirality' = desired_chirality
              /\ args' = [real_unit_cell_basis |-> real_unit_cell_basis]
              /\ result' = r.val
              /\ raised' = r.exc
    /\ UNCHANGED <<atoms, factor, num_times, acell, atoms_object, locals>>

NextBasis == GenerateXYChiralCellInBasis

SpecBasis == InitBasis /\ [][NextBasis]_vars

BuiltInBasis == op = "generate_xy_chiral_cell_in_basis"

\* 0 <= c < 1 for the three components of the atom's coordinate
InHalfOpenCube(atom) ==
    \A c \in 1..3 :
        /\ ~NumLt(atom.coord.coordinate_array[c], PyInt(0))
        /\ ~NumLe(PyInt(1), atom.coord.coordinate_array[c])

\* a component of the atom's coordinate is equal to the number
HasComponent(atom, number) ==
    \E c \in 1..3 : NumEq(atom.coord.coordinate_array[c], number)

\* C24: the builder returns exactly the rotated and dilated atoms whose three
\* components c satisfy 0 <= c < 1: a component 0 is kept, a component 1 is
\* dropped
C24_FilterKeepsHalfOpenCube ==
    (BuiltInBasis /\ raised = "none")
        => With(normalized_atoms(atoms, chirality, args.real_unit_cell_basis),
                LAMBDA full :
                    /\ \A i \in 1..Len(result) : InHalfOpenCube(result[i])
                    /\ result = SelectSeq(full, InHalfOpenCube)
                    /\ \A i \in 1..Len(full) :
                           HasComponent(full[i], PyInt(1))
                               => \A j \in 1..Len(result) : result[j] # full[i])

C24_Witness ==
    /\ BuiltInBasis
    /\ raised = "none"
    /\ args.real_unit_cell_basis = orthonormal_basis
    /\ IsChirality(chirality, 1, 1)
    /\ \E j \in 1..Len(result) : HasComponent(result[j], PyInt(0))
    /\ With(normalized_atoms(atoms, chirality, orthonormal_basis), LAMBDA full :
           /\ \E i \in 1..Len(full) :
                  /\ HasComponent(full[i], PyInt(1))
                  /\ \A c \in 1..3 :
                         /\ NumLe(PyInt(0), full[i].coord.coordinate_array[c])
                         /\ NumLe(full[i].coord.coordinate_array[c], PyInt(1))
           /\ Len(result) < Len(full))

\* C25: with the 60-degree rhombus basis the builder returns, for an integer
\* chirality (p,q) with p, q >= 0 and not both 0,
\* original_count*(p^2+q^2) atoms
C25_RhombusKeepsExpectedSize ==
    (/\ BuiltInBasis
     /\ args.real_unit_cell_basis = rhombus_basis
     /\ IntegerChirality(chirality)
     /\ chirality[1].a >= 0
     /\ chirality[2].a >= 0)
        => /\ raised = "none"
           /\ Len(result) = Len(atoms) * SquaredLength(chirality)

----------------------------------------------------------------------------
(* Coordinate arithmetic on a Coordinate and a raw list                    *)

Coordinate_sub_list(self, other) == Coordinate_op_list(NumSub, self, other)

\* self + other, self - other, self * other, self / other for a list other
Coordinate_list_operation(operator, self, other) ==
    CASE operator = "__add__" -> Coordinate_add_list(self, other)
      [] operator = "__sub__" -> Coordinate_sub_list(self, other)
      [] operator = "__mul__" -> Coordinate_mul_list(self, other)
      [] operator = "__div__" -> Coordinate_div_list(self, other)

\* raw lists of two, three and four numbers
RawLists ==
    {<<PyInt(1), PyInt(2)>>,
     <<PyInt(1), PyInt(2), PyInt(3)>>,
     <<Fraction(1, 2), PyFloat(1, 2), PyInt(2)>>,
     <<PyInt(0), PyInt(1), PyInt(2)>>,
     <<PyInt(1), PyInt(2), PyInt(3), PyInt(4)>>}

\* self <operator> other for a Coordinate and a list
CoordinateListOperation ==
    /\ op = "none"
    /\ \E operator \in Operators, self \in CoordinatePool, other \in RawLists :
          \E r \in {Coordinate_list_operation(operator, self, other)} :
              /\ op' = "coordinate_list_operation"
              /\ args' = [operator |-> operator, self |-> self, other |-> other]
              /\ result' = r.val
              /\ raised' = r.exc
    /\ UNCHANGED <<atoms, factor, num_times, chirality, acell, atoms_object, locals>>

NextCoordinateList == CoordinateListOperation

SpecCoordinateList == InitCoordinate /\ [][NextCoordinateList]_vars

OperatedOnList == op = "coordinate_list_operation"

\* C26: an operation on a Coordinate and a list raises when the list is
\* shorter or longer than the Coordinate, and gives the component-wise
\* result when the lengths are equal
C26_ListLengthMustAgree ==
    OperatedOnList
        => /\ Len(args.other) # Len(args.self.coordinate_array)
                 => (raised # "none" /\ result = <<>>)
           /\ (/\ Len(args.other) = Len(args.self.coordinate_array)
               /\ args.operator = "__div__" => \A i \in 1..Len(args.other) :
                                                   ~IsZero(args.other[i]))
                 => /\ raised = "none"
                    /\ Len(result.coordinate_array) = Len(args.self.coordinate_array)
                    /\ \A i \in 1..Len(args.self.coordinate_array) :
                           result.coordinate_array[i]
                               = Componentwise(args.operator,
                                               args.self.coordinate_array[i],
                                               args.other[i])

----------------------------------------------------------------------------
(* repeat_atoms_in_unit_cell keeps the atoms in the cell and apart         *)

\* 0 <= c < 1 for every component of every atom of the list
AllInsideCell(list) ==
    \A i \in 1..Len(list) : \A c \in 1..Len(list[i].coord.coordinate_array) :
        /\ NumLe(PyInt(0), list[i].coord.coordinate_array[c])
        /\ NumLt(list[i].coord.coordinate_array[c], PyInt(1))

\* the position of an atom as numbers, whatever their Python types
PositionOf(atom) ==
    [c \in 1..Len(atom.coord.coordinate_array) |->
        <<atom.coord.coordinate_array[c].a, atom.coord.coordinate_array[c].b,
          atom.coord.coordinate_array[c].d, atom.coord.coordinate_array[c].r>>]

\* no two atoms of the list are at the same position
PairwiseApart(list) ==
    Cardinality({PositionOf(list[i]) : i \in 1..Len(list)}) = Len(list)

----------------------------------------------------------------------------
(* The cell lengths of the chiral-cell command                             *)

\* the acell attribute of the experiment the command loaded
LoadedAcell == CHOOSE value \in Acells : value # <<>>

\* C28: the command multiplies the first two acell lengths by the length |V|
\* of the real-space chirality vector of the builder, whose reciprocal
\* dilated the atoms, and leaves the third length as it is
C28_AcellScaledByChiralityLength ==
    (Commanded /\ chirality # <<>> /\ raised = "none" /\ acell # <<>>)
        => With(length_of(real_chirality_vector(rhombus_basis, chirality)),
                LAMBDA length :
                    /\ NumEq(acell[1], NumMul(LoadedAcell[1], length))
                    /\ NumEq(acell[2], NumMul(LoadedAcell[2], length))
                    /\ NumEq(acell[3], LoadedAcell[3]))

----------------------------------------------------------------------------
(* parse_band_eigenvalues.parse_band_eigenenergy_file                      *)

\* the largest number of lines after the first line of a file
MaxLines == 3

\* A line of the file is a record with its kind t: the first line ("first",
\* number is the nkpt it declares), the first line of a k-point ("kpt", with
\* its number and nband), a line of number energies ("energies"), a line of
\* white space ("blank"); readline gives the empty string at the end of the
\* file ("eof").
FirstLine(number) == [t |-> "first", number |-> number, nband |-> 0]

KPointLine(number, nband) == [t |-> "kpt", number |-> number, nband |-> nband]

EnergyLine(number) == [t |-> "energies", number |-> number, nband |-> 0]

BlankLine == [t |-> "blank", number |-> 0, nband |-> 0]

EndOfFile == [t |-> "eof", number |-> 0, nband |-> 0]

\* the line file_handler.readline() returns
readline(file_handler) ==
    IF file_handler.position < Len(file_handler.lines)
    THEN file_handler.lines[file_handler.position + 1]
    ELSE EndOfFile

\* the file handler after readline: the position does not pass the end
after_readline(file_handler) ==
    IF file_handler.position < Len(file_handler.lines)
    THEN [file_handler EXCEPT !.position = @ + 1]
    ELSE file_handler

\* int(words[6]): words[6] is missing or is no number unless the line is
\* the first line of the format
parse_num_k_points_and_energy_unit_from_first_line(first_line) ==
    IF first_line.t = "first" THEN Ok(first_line.number)
    ELSE IF first_line.t = "kpt" THEN Raise("ValueError")
    ELSE Raise("IndexError")

\* float(words[7]) comes first: words[7] is missing, or is no number
parse_k_point_line_one_for_number_nband_wtk_coord(line_one) ==
    IF line_one.t = "kpt" THEN Ok([number |-> line_one.number, num_bands |-> line_one.nband])
    ELSE IF line_one.t = "first" THEN Raise("ValueError")
    ELSE Raise("IndexError")

\* map(float, string.split(second_line)): the empty list for a line without
\* words, and so for the empty string of the end of the file
parse_line_for_k_point_band_energies(second_line) ==
    IF second_line.t \in {"first", "kpt"} THEN Raise("ValueError")
    ELSE Ok([i \in 1..second_line.number |-> "energy"])

\* the local variables of parse_band_eigenenergy_file at the program point pc
Locals(pc, num_k_points, k_point, num_bands, band_energies, k_points) ==
    [pc |-> pc, num_k_points |-> num_k_points, k_point |-> k_point,
     num_bands |-> num_bands, band_energies |-> band_energies, k_points |-> k_points]

LinesAfterFirst ==
    {KPointLine(1, 1), KPointLine(1, 2), KPointLine(2, 1),
     EnergyLine(1), EnergyLine(2), BlankLine}

Files ==
    {<<>>, <<BlankLine>>}
    \cup {<<FirstLine(n)>> \o rest : n \in 1..2, rest \in SeqsUpTo(LinesAfterFirst, MaxLines)}

InitParse ==
    /\ atoms = <<>>
    /\ atoms_object = atoms
    /\ \E lines \in Files : args = [file_handler |-> [lines |-> lines, position |-> 0]]
    /\ op = "none"
    /\ factor = <<>>
    /\ num_times = 0
    /\ chirality = <<>>
    /\ acell = <<>>
    /\ result = <<>>
    /\ raised = "none"
    /\ locals = <<>>

Running(pc) ==
    /\ op = "parse_band_eigenenergy_file"
    /\ raised = "none"
    /\ locals.pc = pc

\* first_line = file_handler.readline() and the parse of it; k_points = []
ReadFirstLine ==
    /\ op = "none"
    /\ op' = "parse_band_eigenenergy_file"
    /\ args' = [args EXCEPT !.file_handler = after_readline(@)]
    /\ \E r \in {parse_num_k_points_and_energy_unit_from_first_line(
                     readline(args.file_handler))} :
          /\ raised' = r.exc
          /\ locals' = IF r.exc = "none"
                       THEN Locals("for", r.val, 1, 0, <<>>, <<>>)
                       ELSE Locals("raised", 0, 1, 0, <<>>, <<>>)
    /\ UNCHANGED <<atoms, factor, num_times, chirality, acell, result, atoms_object>>

\* the end of the loop over the k points: return k_points
ReturnKPoints ==
    /\ Running("for")
    /\ locals.k_point > locals.num_k_points
    /\ result' = locals.k_points
    /\ locals' = [locals EXCEPT !.pc = "returned"]
    /\ UNCHANGED <<atoms, op, factor, num_times, chirality, acell, raised,
                   atoms_object, args>>

\* one more k point: line_one, its parse, the assert, band_energies = []
ReadKPointLineOne ==
    /\ Running("for")
    /\ locals.k_point <= locals.num_k_points
    /\ args' = [args EXCEPT !.file_handler = after_readline(@)]
    /\ \E r \in {parse_k_point_line_one_for_number_nband_wtk_coord(
                     readline(args.file_handler))} :
          IF r.exc # "none"
          THEN raised' = r.exc /\ locals' = [locals EXCEPT !.pc = "raised"]
          ELSE IF r.val.number # locals.k_point
          THEN raised' = "AssertionError" /\ locals' = [locals EXCEPT !.pc = "raised"]
          ELSE /\ raised' = "none"
               /\ locals' = [locals EXCEPT !.pc = "while",
                                           !.num_bands = r.val.num_bands,
                                           !.band_energies = <<>>]
    /\ UNCHANGED <<atoms, op, factor, num_times, chirality, acell, result, atoms_object>>

\* while len(band_energies) < num_bands, and k_points.append after the loop
TestBandEnergies ==
    /\ Running("while")
    /\ locals' = IF Len(locals.band_energies) < locals.num_bands
                 THEN [locals EXCEPT !.pc = "readline"]
                 ELSE [locals EXCEPT
                          !.pc = "for",
                          !.k_point = @ + 1,
                          !.k_points = Append(@, [number |-> locals.k_point,
                                                  num_bands |-> locals.num_bands,
                                                  band_energies |-> locals.band_energies])]
    /\ UNCHANGED <<atoms, op, factor, num_times, chirality, acell, result, raised,
                   atoms_object, args>>

\* band_energies.extend(parse_line_for_k_point_band_energies(readline()))
ReadBandEnergies ==
    /\ Running("readline")
    /\ args' = [args EXCEPT !.file_handler = after_readline(@)]
    /\ \E r \in {parse_line_for_k_point_band_energies(readline(args.file_handler))} :
          IF r.exc # "none"
          THEN raised' = r.exc /\ locals' = [locals EXCEPT !.pc = "raised"]
          ELSE /\ raised' = "none"
               /\ locals' = [locals EXCEPT !.pc = "while",
                                           !.band_energies = @ \o r.val]
    /\ UNCHANGED <<atoms, op, factor, num_times, chirality, acell, result, atoms_object>>

NextParse ==
    \/ ReadFirstLine
    \/ ReturnKPoints
    \/ ReadKPointLineOne
    \/ TestBandEnergies
    \/ ReadBandEnergies

SpecParse == InitParse /\ [][NextParse]_vars

\* a running call goes on to its next statement
SpecParseFair == SpecParse /\ WF_vars(NextParse)

\* the first line of the file declares the number of k points
FirstLineDeclares ==
    /\ Len(args.file_handler.lines) >= 1
    /\ args.file_handler.lines[1].t = "first"

\* the call has returned its list or has raised
Terminated ==
    /\ op = "parse_band_eigenenergy_file"
    /\ raised # "none" \/ locals.pc = "returned"

\* C30: on every file whose first line declares the number of k points the
\* call terminates, also when the file ends, or goes on with blank lines,
\* before the nband energies of a k point are read
C30_ParserTerminates == FirstLineDeclares => <>Terminated

====
